---- MODULE Spec2Model ----
(***************************************************************************)
(* Streaming playback core of kokorodoki: TTSPlayer (producer thread       *)
(* generate_audio, consumer thread play_audio, speak, stop_playback,       *)
(* skip/back/pause/resume), AudioPlayer (the sink and its device           *)
(* callback) and the two controllers that drive one player: run_daemon     *)
(* and run_console.  Every thread is a program counter plus its locals;    *)
(* one action is one step between two accesses to shared state.            *)
(***************************************************************************)
EXTENDS Integers, Sequences, FiniteSets, TLC

\* ---------------------------------------------------------------- bounds
MaxSessions == 2      \* speak() calls made on the player in one run
MaxSentences == 2     \* utterances of a text message
MaxChunks == 2        \* audio chunks the synthesis yields per session
MaxBack == 2          \* back_sentence calls in one run
ChunkFrames == 1      \* frames of every audio chunk
BlockFrames == 1      \* frames the device asks for in one callback

Sessions == 1..MaxSessions
None == <<>>
Chunk(s, k) == <<s, k>>

Min(a, b) == IF a < b THEN a ELSE b

VARIABLES
    \* TTSPlayer fields
    audio_queue,       \* queue.Queue contents, oldest first
    unfinished_tasks,  \* queue.Queue.unfinished_tasks
    stop_event, skip, back,
    back_number,
    print_complete,
    audio_player,      \* FALSE while self.audio_player is None
    language, voice, speed,
    pipeline,          \* lang_code of self.pipeline
    \* AudioPlayer fields
    current_audio, playing, current_frame,
    \* generate_audio thread of session s
    gen_pc, gen_sent, gen_len, gen_put,
    \* play_audio thread of session s
    play_pc, audio_chunks, c_back_number, audio, c_tmp,
    \* speak() call of session s
    speak_pc,
    \* controller (main thread of run_daemon / run_console)
    mode,              \* "daemon", "console" or "cli": which controller runs
    ctrlc,             \* player.ctrlc
    running_threads,   \* run.py's module-level running_threads
    m_pc, m_cmd, m_tmp, current_thread, back_calls,
    data,              \* the message run_daemon received last
    \* history variables (observations, never read by the program)
    sentinels,         \* sentinels put by the producer of session s
    late_put,          \* a chunk was put after the sentinel of session s
    gen_exit,          \* how the producer of session s ended
    sunk,              \* chunks session s handed to AudioPlayer.play since the
                       \* last stop, skip or back request
    complete,          \* "Playback complete." notifications of session s
    exit_stop,         \* stop_event was set when the consumer of s left its loop
    plain,             \* no stop, skip or back was issued during session s
    req,               \* the last skip or back request and what was playing
    soft_int,          \* print_complete was cleared by an interrupt during s
    paused,            \* pause() was called and resume() has not been since
    snap,              \* the settings in effect when speak() of session s began
    torn,              \* the first sentence of s synthesized with other settings
                       \* (0: none)
    sink_failed,       \* the AudioPlayer of session s could not be opened
    result,            \* how the last !lang, !voice or !speed ended
    \* text processing (utils.py)
    sentences,         \* what sent_tokenize returned for the text received
    new_sentences,     \* what split_text_to_sentences returned for it
    content,           \* the lines of the SRT file read
    entries,           \* what parse_srt_file returned for it
    bind_failed,       \* server_socket.bind() raised
    \* the output device
    outdata,           \* the buffers the callbacks filled since the last
                       \* play() (0: silence)
    \* the GUI observer
    gui_highlight,     \* play_audio was given an observer
    highlighted        \* the index last put on the observer's queue
                       \* (<<>>: none, or remove_highlight)

playerVars == <<audio_queue, unfinished_tasks, stop_event, skip, back,
                back_number, print_complete, audio_player>>
sinkVars == <<current_audio, playing, current_frame>>
genVars == <<gen_pc, gen_sent, gen_len, gen_put>>
playVars == <<play_pc, audio_chunks, c_back_number, audio, c_tmp>>
cfgVars == <<language, voice, speed, pipeline>>
ctlObs == <<paused, snap, torn, sink_failed, result>>
sinkObs == <<outdata>>
guiVars == <<gui_highlight, highlighted>>
textVars == <<sentences, new_sentences, content, entries, bind_failed, sinkObs,
              guiVars>>
envVars == <<mode, ctrlc, running_threads, cfgVars, ctlObs, textVars>>
procVars == <<mode, ctrlc, running_threads, cfgVars, textVars>>
ctlVars == <<m_pc, m_cmd, data, m_tmp, current_thread, back_calls>>
mainVars == <<envVars, ctlVars>>

obsVars == <<sentinels, late_put, gen_exit, sunk, complete, exit_stop, plain, req, soft_int>>

vars == <<playerVars, sinkVars, genVars, playVars, speak_pc, mainVars, obsVars>>

\* The process is alive (sys.exit has not been reached).
Running == m_pc # "exited"

GenAlive(s) == gen_pc[s] \notin {"idle", "done"}
PlayAlive(s) == play_pc[s] \notin {"idle", "done"}
SpeakAlive(s) == speak_pc[s] \notin {"idle", "done"}

\* A session whose three threads have ended.
Over(s) == speak_pc[s] = "done" /\ ~GenAlive(s) /\ ~PlayAlive(s)

\* ------------------------------------------------ settings of the TTSPlayer
\* Speeds are counted in tenths: 0.5 is 5, 1.2 is 12, 2.0 is 20.
MIN_SPEED == 5
MAX_SPEED == 20
DEFAULT_SPEED == 12

\* The keys of get_language_map().
Languages == {"a", "b", "e", "f", "h", "i", "p", "j", "z"}

\* A voice id is << its first letter, the rest >>.  A sample of get_voices()
\* in the order of the list: the first voice of each language and the
\* default voice af_heart.
Voices ==
    << <<"a", "f_alloy">>, <<"a", "f_heart">>, <<"b", "f_alice">>,
       <<"e", "f_dora">>, <<"f", "f_siwis">>, <<"h", "f_alpha">>,
       <<"i", "f_sara">>, <<"j", "f_alpha">>, <<"p", "f_dora">>,
       <<"z", "f_xiaobei">> >>

KnownVoices == {Voices[i] : i \in 1..Len(Voices)}

DEFAULT_LANGUAGE == "a"
DEFAULT_VOICE == <<"a", "f_heart">>

\* voice.startswith(lang)
StartsWith(v, lang) == v[1] = lang

\* next(voice for voice in get_voices() if voice.startswith(new_lang))
FirstVoice(new_lang) ==
    Voices[CHOOSE i \in 1..Len(Voices) :
               /\ StartsWith(Voices[i], new_lang)
               /\ \A j \in 1..(i - 1) : ~StartsWith(Voices[j], new_lang)]

\* The test of change_voice (line 72).
VoiceAccepted(new_voice) == new_voice \in KnownVoices

\* TTSPlayer.change_voice
change_voice(new_voice) ==
    IF VoiceAccepted(new_voice)
    THEN voice' = new_voice /\ result' = "True"
    ELSE UNCHANGED voice /\ result' = "False"

\* A test that lets every speed through.
AnySpeed(new_speed) == TRUE

\* The test of change_speed (line 79).
SpeedAccepted(new_speed) == MIN_SPEED <= new_speed /\ new_speed <= MAX_SPEED

\* TTSPlayer.change_speed
change_speed(new_speed) ==
    IF SpeedAccepted(new_speed)
    THEN speed' = new_speed /\ result' = "True"
    ELSE UNCHANGED speed /\ result' = "False"

\* A change of language that always takes the first voice of the language.
ResetVoice(new_lang) ==
    IF new_lang \in Languages
    THEN /\ language' = new_lang
         /\ pipeline' = new_lang
         /\ voice' = FirstVoice(new_lang)
         /\ result' = "True"
    ELSE /\ UNCHANGED <<language, pipeline, voice>>
         /\ result' = "False"

\* TTSPlayer.change_language: the pipeline is rebuilt for the new language,
\* and a voice of another language is replaced by the first voice of the new
\* one.
change_language(new_lang) ==
    IF new_lang \in Languages
    THEN /\ language' = new_lang
         /\ pipeline' = new_lang
         /\ voice' = IF StartsWith(voice, new_lang) THEN voice
                                                   ELSE FirstVoice(new_lang)
         /\ result' = "True"
    ELSE /\ UNCHANGED <<language, pipeline, voice>>
         /\ result' = "False"

\* The settings a synthesis call reads (lines 104-106).
Settings == <<pipeline, voice, speed>>

\* self.pipeline(sentence, voice=self.voice, speed=self.speed, ...): the call
\* that begins the synthesis of sentence i of session s.
Synthesize(s, i) ==
    torn' = [torn EXCEPT ![s] = IF @ = 0 /\ Settings # snap[s] THEN i ELSE @]

\* ------------------------------------------------------------ queue.Queue
Put(item) ==
    /\ audio_queue' = Append(audio_queue, item)
    /\ unfinished_tasks' = unfinished_tasks + 1

\* ------------------------------------------------- TTSPlayer.generate_audio
\* The thread returns.
GenReturn(s, how) ==
    /\ gen_pc' = [gen_pc EXCEPT ![s] = "done"]
    /\ gen_sent' = [gen_sent EXCEPT ![s] = 0]
    /\ gen_exit' = [gen_exit EXCEPT ![s] = how]
    /\ UNCHANGED <<gen_len, gen_put, late_put>>

\* self.audio_queue.put(None)
GenSentinel(s) ==
    /\ Put(None)
    /\ sentinels' = [sentinels EXCEPT ![s] = @ + 1]

\* A return that puts nothing (no exit path of the source does this).
GenNoSentinel(s) == UNCHANGED <<audio_queue, unfinished_tasks, sentinels>>

\* Lines 109-111, the stop_event branch: put the sentinel and return.
GenOnStop(s) == GenSentinel(s)

\* Lines 125-127, the except branch: report, put the sentinel.
GenOnError(s) == GenSentinel(s)

\* Line 124, the statement after the outer loop.
GenOnFinish(s) == GenSentinel(s)

\* The generator yields its next result and the loop body tests stop_event
\* (lines 108-113).  A result without audio changes nothing and is left out.
GenResult(s) ==
    /\ Running /\ gen_pc[s] = "next"
    /\ IF stop_event
       THEN GenOnStop(s) /\ GenReturn(s, "stop")
       ELSE /\ gen_put[s] < MaxChunks
            /\ gen_pc' = [gen_pc EXCEPT ![s] = "put"]
            /\ UNCHANGED <<audio_queue, unfinished_tasks, sentinels, late_put, gen_exit,
                           gen_sent, gen_len, gen_put>>
    /\ UNCHANGED <<stop_event, skip, back, back_number, print_complete, audio_player,
                   sinkVars, playVars, speak_pc, mainVars, sunk, complete, exit_stop, plain, req, soft_int>>

\* self.audio_queue.put(trimed_audio)
GenPut(s) ==
    /\ Running /\ gen_pc[s] = "put"
    /\ Put(Chunk(s, gen_put[s] + 1))
    /\ gen_put' = [gen_put EXCEPT ![s] = @ + 1]
    /\ late_put' = [late_put EXCEPT ![s] = @ \/ sentinels[s] > 0]
    /\ gen_pc' = [gen_pc EXCEPT ![s] = "next"]
    /\ UNCHANGED <<stop_event, skip, back, back_number, print_complete, audio_player,
                   sinkVars, gen_sent, gen_len, playVars, speak_pc,
                   mainVars, sentinels, gen_exit, sunk, complete, exit_stop, plain, req,
                   soft_int>>

\* The generator of the current sentence is exhausted: next sentence, or the
\* end of the text.
GenExhausted(s) ==
    /\ Running /\ gen_pc[s] = "next"
    /\ IF gen_sent[s] < gen_len[s]
       THEN /\ gen_sent' = [gen_sent EXCEPT ![s] = @ + 1]
            /\ Synthesize(s, gen_sent[s] + 1)
            /\ UNCHANGED <<audio_queue, unfinished_tasks, sentinels, late_put, gen_exit,
                           gen_pc, gen_len, gen_put>>
       ELSE GenOnFinish(s) /\ GenReturn(s, "finish") /\ UNCHANGED torn
    /\ UNCHANGED <<stop_event, skip, back, back_number, print_complete, audio_player,
                   sinkVars, playVars, speak_pc, procVars, ctlVars, paused, snap,
                   sink_failed, result,
                   sunk, complete, exit_stop, plain, req, soft_int>>

\* A producer that notes the error and carries on with the text.
GenSkipSentence(s) ==
    /\ Running /\ gen_pc[s] = "next"
    /\ gen_exit' = [gen_exit EXCEPT ![s] = "error"]
    /\ UNCHANGED <<playerVars, sinkVars, genVars, playVars, speak_pc, mainVars,
                   sentinels, late_put, sunk, complete, exit_stop, plain, req,
                   soft_int>>

\* The pipeline (or the trimming) raises.
GenRaise(s) ==
    /\ Running /\ gen_pc[s] = "next"
    /\ GenOnError(s) /\ GenReturn(s, "error")
    /\ UNCHANGED <<stop_event, skip, back, back_number, print_complete, audio_player,
                   sinkVars, playVars, speak_pc, mainVars, sunk, complete, exit_stop, plain, req, soft_int>>

generate_audio(s) == GenResult(s) \/ GenPut(s) \/ GenExhausted(s) \/ GenRaise(s)

\* -------------------------------------------------------------- AudioPlayer
\* AudioPlayer.play(audio)
SinkPlay(a) ==
    /\ current_audio' = a
    /\ current_frame' = 0
    /\ playing' = TRUE

\* AudioPlayer.stop()
SinkStop ==
    /\ playing' = FALSE
    /\ current_frame' = 0
    /\ current_audio' = None

\* AudioPlayer._callback on the device thread, while it has samples to copy.
\* (Paused, or with no clip, it writes silence and changes nothing.)
Callback ==
    /\ Running /\ audio_player
    /\ playing /\ current_audio # None
    /\ LET chunksize == Min(ChunkFrames - current_frame, BlockFrames)
       IN /\ current_audio' = IF chunksize < BlockFrames THEN None ELSE current_audio
          /\ current_frame' = current_frame + chunksize
    /\ UNCHANGED <<playing, playerVars, genVars, playVars, speak_pc, mainVars, obsVars>>

\* ----------------------------------------------------- TTSPlayer.play_audio
audio_size(s) == Len(audio_chunks[s])

\* The thread returns (or its except clause has run): its locals are gone.
PlayReturn(s) ==
    /\ play_pc' = [play_pc EXCEPT ![s] = "done"]
    /\ audio_chunks' = [audio_chunks EXCEPT ![s] = <<>>]
    /\ c_back_number' = [c_back_number EXCEPT ![s] = 0]
    /\ audio' = [audio EXCEPT ![s] = None]
    /\ c_tmp' = [c_tmp EXCEPT ![s] = 0]

PlayGoto(s, label) == play_pc' = [play_pc EXCEPT ![s] = label]

\* Lines 275-280: create the AudioPlayer on first use, reset the history,
\* the back counter and print_complete.
PlayInit(s) ==
    /\ Running /\ play_pc[s] = "init"
    /\ audio_player' = TRUE
    /\ IF audio_player
       THEN UNCHANGED sinkVars
       ELSE current_audio' = None /\ current_frame' = 0 /\ playing' = TRUE
    /\ audio_chunks' = [audio_chunks EXCEPT ![s] = <<>>]
    /\ back_number' = 0
    /\ print_complete' = TRUE
    /\ PlayGoto(s, "head")
    /\ UNCHANGED <<audio_queue, unfinished_tasks, stop_event, skip, back,
                   genVars, c_back_number, audio, c_tmp, speak_pc, mainVars, obsVars>>

\* Line 276 raises: sd.OutputStream cannot be opened (AudioPlayer.__init__,
\* lines 406-412).  The except clause of line 326 reports it and the thread
\* ends; self.audio_player stays None.
PlayInitFail(s) ==
    /\ Running /\ play_pc[s] = "init"
    /\ ~audio_player
    /\ sink_failed' = [sink_failed EXCEPT ![s] = TRUE]
    /\ PlayReturn(s)
    /\ UNCHANGED <<playerVars, sinkVars, genVars, speak_pc, procVars, ctlVars,
                   paused, snap, torn, result, obsVars>>

\* A loop head without skip.clear().
PlayHeadKeepSkip(s) ==
    /\ Running /\ play_pc[s] = "head"
    /\ IF stop_event
       THEN /\ PlayGoto(s, "end")
            /\ exit_stop' = [exit_stop EXCEPT ![s] = TRUE]
            /\ UNCHANGED <<skip, back>>
       ELSE /\ skip' = skip
            /\ back' = FALSE
            /\ PlayGoto(s, "clamp")
            /\ UNCHANGED exit_stop
    /\ UNCHANGED <<audio_queue, unfinished_tasks, stop_event, back_number,
                   print_complete, audio_player, sinkVars, genVars, audio_chunks,
                   c_back_number, audio, c_tmp, speak_pc, mainVars,
                   sentinels, late_put, gen_exit, sunk, complete, plain, req, soft_int>>

\* Lines 281-283: the loop test, then skip.clear() and back.clear().
PlayHead(s) ==
    /\ Running /\ play_pc[s] = "head"
    /\ IF stop_event
       THEN /\ PlayGoto(s, "end")
            /\ exit_stop' = [exit_stop EXCEPT ![s] = TRUE]
            /\ UNCHANGED <<skip, back>>
       ELSE /\ skip' = FALSE
            /\ back' = FALSE
            /\ PlayGoto(s, "clamp")
            /\ UNCHANGED exit_stop
    /\ UNCHANGED <<audio_queue, unfinished_tasks, stop_event, back_number,
                   print_complete, audio_player, sinkVars, genVars, audio_chunks,
                   c_back_number, audio, c_tmp, speak_pc, mainVars,
                   sentinels, late_put, gen_exit, sunk, complete, plain, req, soft_int>>

\* Line 285, first half: self.back_number is read.
PlayClamp(s) ==
    /\ Running /\ play_pc[s] = "clamp"
    /\ c_tmp' = [c_tmp EXCEPT ![s] = back_number]
    /\ PlayGoto(s, "fetch")
    /\ UNCHANGED <<playerVars, sinkVars, genVars, audio_chunks, c_back_number,
                   audio, speak_pc, mainVars, obsVars>>

\* The clamped back count, min(self.back_number, audio_size).
ClampedBack(s) == Min(c_tmp[s], audio_size(s))

\* An index one element older than the source's, kept inside the history.
OlderIndex(s, b) == IF b < audio_size(s) THEN audio_size(s) - b ELSE 1

\* The history element a replay with back count b takes (the source's
\* audio_chunks[audio_size - back_number], 0-based there, 1-based here).
ReplayIndex(s, b) == audio_size(s) - b + 1

\* Lines 285-288: the clamped count is stored, then the replay branch takes
\* its chunk from the history; otherwise the thread goes on to the queue.
PlayFetch(s) ==
    /\ Running /\ play_pc[s] = "fetch"
    /\ LET b == ClampedBack(s)
       IN /\ back_number' = b
          /\ c_back_number' = [c_back_number EXCEPT ![s] = b]
          /\ IF b > 0 /\ audio_size(s) > 0
             THEN /\ audio' = [audio EXCEPT ![s] = audio_chunks[s][ReplayIndex(s, b)]]
                  /\ PlayGoto(s, "play")
             ELSE /\ PlayGoto(s, "get")
                  /\ UNCHANGED audio
    /\ c_tmp' = [c_tmp EXCEPT ![s] = 0]
    /\ UNCHANGED <<audio_queue, unfinished_tasks, stop_event, skip, back,
                   print_complete, audio_player, sinkVars, genVars, audio_chunks,
                   speak_pc, mainVars, obsVars>>

\* Lines 289-294: the blocking get(); the sentinel breaks the loop, a chunk
\* is appended to the history.
PlayGet(s) ==
    /\ Running /\ play_pc[s] = "get"
    /\ audio_queue # <<>>
    /\ audio_queue' = Tail(audio_queue)
    /\ IF Head(audio_queue) = None
       THEN /\ PlayGoto(s, "end")
            /\ exit_stop' = [exit_stop EXCEPT ![s] = stop_event]
            /\ UNCHANGED <<audio, audio_chunks>>
       ELSE /\ audio' = [audio EXCEPT ![s] = Head(audio_queue)]
            /\ audio_chunks' = [audio_chunks EXCEPT ![s] = Append(@, Head(audio_queue))]
            /\ PlayGoto(s, "play")
            /\ UNCHANGED exit_stop
    /\ UNCHANGED <<unfinished_tasks, stop_event, skip, back, back_number,
                   print_complete, audio_player, sinkVars, genVars, c_back_number,
                   c_tmp, speak_pc, mainVars, sentinels, late_put, gen_exit, sunk, complete, plain, req, soft_int>>

\* The index without the "or 1" of line 302.
PlainIndex(s) == audio_size(s) - c_back_number[s]

\* Line 302: the index put on the observer's queue with highlight,
\* audio_size - (back_number or 1).
HighlightIndex(s) ==
    audio_size(s) - (IF c_back_number[s] # 0 THEN c_back_number[s] ELSE 1)

\* Lines 299-303: self.audio_player.play(audio), and the observer, if there
\* is one, is given the index of the chunk.
PlayPlay(s) ==
    /\ Running /\ play_pc[s] = "play"
    /\ SinkPlay(audio[s])
    /\ highlighted' = IF gui_highlight THEN <<HighlightIndex(s)>> ELSE highlighted
    /\ sunk' = [sunk EXCEPT ![s] = Append(@, audio[s])]
    /\ PlayGoto(s, "poll")
    /\ UNCHANGED <<playerVars, genVars, audio_chunks, c_back_number, audio, c_tmp,
                   speak_pc, mode, ctrlc, running_threads, cfgVars, ctlObs,
                   sentences, new_sentences, content, entries, bind_failed,
                   sinkObs, gui_highlight, ctlVars,
                   sentinels, late_put, gen_exit, complete, exit_stop, plain, req, soft_int>>

\* What one pass of the polling loop (lines 304-314) decides.
PollDecision ==
    IF current_audio = None THEN "finished"
    ELSE IF stop_event THEN "stop"
    ELSE IF skip THEN "skip"
    ELSE IF back THEN "back"
    ELSE "sleep"

\* Lines 304-314.  A pass that only sleeps changes nothing and is left out.
PlayPoll(s) ==
    /\ Running /\ play_pc[s] = "poll"
    /\ PollDecision # "sleep"
    /\ IF PollDecision = "finished"
       THEN /\ PlayGoto(s, "after")
            /\ UNCHANGED <<sinkVars, audio_chunks, c_back_number, audio, c_tmp>>
       ELSE IF PollDecision = "stop"
       THEN /\ SinkStop
            /\ PlayReturn(s)
       ELSE /\ SinkStop
            /\ PlayGoto(s, "after")
            /\ UNCHANGED <<audio_chunks, c_back_number, audio, c_tmp>>
    /\ UNCHANGED <<playerVars, genVars, speak_pc, mainVars, obsVars>>

\* An iteration end that leaves the back counter as it is.
PlayAfterKeep(s) ==
    /\ Running /\ play_pc[s] = "after"
    /\ PlayGoto(s, "task_done")
    /\ UNCHANGED <<playerVars, sinkVars, genVars, audio_chunks, c_back_number,
                   audio, c_tmp, speak_pc, mainVars, obsVars>>

\* Line 317: the test that guards the decrement.
PlayAfter(s) ==
    /\ Running /\ play_pc[s] = "after"
    /\ IF ~back /\ back_number > 0
       THEN /\ c_tmp' = [c_tmp EXCEPT ![s] = back_number]
            /\ PlayGoto(s, "dec")
       ELSE /\ PlayGoto(s, "task_done")
            /\ UNCHANGED c_tmp
    /\ UNCHANGED <<playerVars, sinkVars, genVars, audio_chunks, c_back_number,
                   audio, speak_pc, mainVars, obsVars>>

\* An iteration end that takes two units from the back counter.
PlayDecTwo(s) ==
    /\ Running /\ play_pc[s] = "dec"
    /\ back_number' = IF c_tmp[s] > 1 THEN c_tmp[s] - 2 ELSE 0
    /\ c_tmp' = [c_tmp EXCEPT ![s] = 0]
    /\ PlayGoto(s, "task_done")
    /\ UNCHANGED <<audio_queue, unfinished_tasks, stop_event, skip, back,
                   print_complete, audio_player, sinkVars, genVars, audio_chunks,
                   c_back_number, audio, speak_pc, mainVars, obsVars>>

\* Line 318: self.back_number -= 1
PlayDec(s) ==
    /\ Running /\ play_pc[s] = "dec"
    /\ back_number' = c_tmp[s] - 1
    /\ c_tmp' = [c_tmp EXCEPT ![s] = 0]
    /\ PlayGoto(s, "task_done")
    /\ UNCHANGED <<audio_queue, unfinished_tasks, stop_event, skip, back,
                   print_complete, audio_player, sinkVars, genVars, audio_chunks,
                   c_back_number, audio, speak_pc, mainVars, obsVars>>

\* Lines 319-320: task_done() when the counter is 0.  queue.Queue raises
\* ValueError when there is no unfinished task; the except clause of
\* play_audio reports it and the thread ends.
PlayTaskDone(s) ==
    /\ Running /\ play_pc[s] = "task_done"
    /\ IF back_number # 0
       THEN /\ PlayGoto(s, "head")
            /\ UNCHANGED <<unfinished_tasks, audio_chunks, c_back_number, audio, c_tmp>>
       ELSE IF unfinished_tasks > 0
       THEN /\ unfinished_tasks' = unfinished_tasks - 1
            /\ PlayGoto(s, "head")
            /\ UNCHANGED <<audio_chunks, c_back_number, audio, c_tmp>>
       ELSE /\ PlayReturn(s)
            /\ UNCHANGED unfinished_tasks
    /\ UNCHANGED <<audio_queue, stop_event, skip, back, back_number,
                   print_complete, audio_player, sinkVars, genVars,
                   speak_pc, mainVars, obsVars>>

\* A consumer that never prints the notification.
NeverNotifies == FALSE

\* Whether the code after the loop prints "Playback complete." (line 324).
Notifies == print_complete

\* Lines 319-325: after the loop; the observer, if there is one, is given
\* remove_highlight.
PlayEnd(s) ==
    /\ Running /\ play_pc[s] = "end"
    /\ highlighted' = IF gui_highlight THEN <<>> ELSE highlighted
    /\ SinkStop
    /\ complete' = [complete EXCEPT ![s] = IF Notifies THEN @ + 1 ELSE @]
    /\ PlayReturn(s)
    /\ UNCHANGED <<playerVars, genVars, speak_pc, mode, ctrlc, running_threads,
                   cfgVars, ctlObs, sentences, new_sentences, content, entries,
                   bind_failed, sinkObs, gui_highlight, ctlVars,
                   sentinels, late_put, gen_exit, sunk, exit_stop, plain, req, soft_int>>

play_audio(s) ==
    \/ PlayInit(s) \/ PlayHead(s) \/ PlayClamp(s) \/ PlayFetch(s) \/ PlayGet(s)
    \/ PlayPlay(s) \/ PlayPoll(s) \/ PlayAfter(s) \/ PlayDec(s)
    \/ PlayTaskDone(s) \/ PlayEnd(s)

\* ---------------------------------------------------------- TTSPlayer.speak
SpeakGoto(s, label) == speak_pc' = [speak_pc EXCEPT ![s] = label]

\* Line 357: self.stop_event.clear(), the first statement of speak; the
\* settings in effect are noted.
SpeakClearStop(s) ==
    /\ Running /\ speak_pc[s] = "clear"
    /\ stop_event' = FALSE
    /\ snap' = [snap EXCEPT ![s] = Settings]
    /\ SpeakGoto(s, "qclear")
    /\ UNCHANGED <<audio_queue, unfinished_tasks, skip, back, back_number,
                   print_complete, audio_player, sinkVars, genVars, playVars,
                   procVars, ctlVars, paused, torn, sink_failed, result, obsVars>>

\* A speak that leaves the queue as it finds it.
SpeakKeepQueue(s) ==
    /\ Running /\ speak_pc[s] = "qclear"
    /\ SpeakGoto(s, "start_gen")
    /\ UNCHANGED <<playerVars, sinkVars, genVars, playVars, mainVars, obsVars>>

\* Lines 360-361: the queue is emptied.
SpeakClearQueue(s) ==
    /\ Running /\ speak_pc[s] = "qclear"
    /\ audio_queue' = <<>>
    /\ SpeakGoto(s, "start_gen")
    /\ UNCHANGED <<unfinished_tasks, stop_event, skip, back, back_number,
                   print_complete, audio_player, sinkVars, genVars, playVars,
                   mainVars, obsVars>>

\* Line 372: gen_thread.start().  The thread's first statements, up to the
\* synthesis call for the first sentence, are taken with its start.
SpeakStartGen(s) ==
    /\ Running /\ speak_pc[s] = "start_gen"
    /\ gen_pc' = [gen_pc EXCEPT ![s] = "next"]
    /\ gen_sent' = [gen_sent EXCEPT ![s] = 1]
    /\ Synthesize(s, 1)
    /\ SpeakGoto(s, "start_play")
    /\ UNCHANGED <<playerVars, sinkVars, gen_len, gen_put, playVars,
                   procVars, ctlVars, paused, snap, sink_failed, result, obsVars>>

\* Line 375: play_thread.start()
SpeakStartPlay(s) ==
    /\ Running /\ speak_pc[s] = "start_play"
    /\ play_pc' = [play_pc EXCEPT ![s] = "init"]
    /\ SpeakGoto(s, "join_play")
    /\ UNCHANGED <<playerVars, sinkVars, genVars, audio_chunks, c_back_number,
                   audio, c_tmp, mainVars, obsVars>>

\* Line 378: play_thread.join()
SpeakJoinPlay(s) ==
    /\ Running /\ speak_pc[s] = "join_play"
    /\ ~PlayAlive(s)
    /\ SpeakGoto(s, "join_gen")
    /\ UNCHANGED <<playerVars, sinkVars, genVars, playVars, mainVars, obsVars>>

\* Where the main thread goes on when speak returns: run_console to its
\* prompt; run_cli returns, and so does its caller (run.py 400, 336-346); a
\* session thread of run_daemon leaves the main thread where it is.
AfterSpeak ==
    IF mode = "console" THEN "idle"
    ELSE IF m_pc = "speak" THEN "exited"
    ELSE m_pc

\* A speak that returns without waiting for the producer.
SpeakNoJoinGen(s) ==
    /\ Running /\ speak_pc[s] = "join_gen"
    /\ SpeakGoto(s, "done")
    /\ m_pc' = AfterSpeak
    /\ UNCHANGED <<playerVars, sinkVars, genVars, playVars, envVars, m_cmd, data, m_tmp,
                   current_thread, back_calls, obsVars>>

\* Line 379: gen_thread.join(), then speak returns.
SpeakJoinGen(s) ==
    /\ Running /\ speak_pc[s] = "join_gen"
    /\ ~GenAlive(s)
    /\ SpeakGoto(s, "done")
    /\ m_pc' = AfterSpeak
    /\ UNCHANGED <<playerVars, sinkVars, genVars, playVars, envVars, m_cmd, data, m_tmp,
                   current_thread, back_calls, obsVars>>

speak(s) ==
    \/ SpeakClearStop(s) \/ SpeakClearQueue(s) \/ SpeakStartGen(s)
    \/ SpeakStartPlay(s) \/ SpeakJoinPlay(s) \/ SpeakJoinGen(s)

\* ------------------------------------------ stop_playback and back_sentence
MainGoto(label) == m_pc' = label

\* A stop, skip or back request is noted for every session that has begun and
\* is not over; the record of what it hands to the sink starts afresh.
Begun(s) == speak_pc[s] # "idle" /\ ~Over(s)

Issued(r) ==
    /\ plain' = [s \in Sessions |-> plain[s] /\ ~Begun(s)]
    /\ sunk' = [s \in Sessions |-> IF Begun(s) THEN <<>> ELSE sunk[s]]
    /\ req' = r

\* What a skip or back request finds: << kind, k, first, only, pending >>
\* when the consumer of the current session is polling chunk k (first:
\* dequeued, not replayed; only: no request was issued in the session before;
\* pending: an earlier back request has not been taken up yet), << kind >>
\* otherwise.
Found(kind) ==
    LET s == current_thread
    IN IF /\ s # 0 /\ play_pc[s] = "poll" /\ current_audio = audio[s]
          /\ audio[s] # None
       THEN <<kind, audio[s][2], c_back_number[s] = 0, plain[s],
              back \/ back_number # c_back_number[s]>>
       ELSE <<kind>>

obsRest == <<sentinels, late_put, gen_exit, complete, exit_stop, soft_int>>

\* Where the caller of stop_playback goes on when it returns.
AfterStop ==
    CASE mode = "daemon" /\ m_cmd = "error" -> "join_timeout"
      [] mode = "daemon" -> "join"
      [] mode = "console" /\ m_cmd \in {"text", "quit"} -> "wait"
      [] mode \in {"console", "cli"} /\ m_cmd = "except" -> "h_join_gen"
      [] OTHER -> "idle"

\* Line 338: self.stop_event.set()
StopSet ==
    /\ m_pc = "stop_set"
    /\ stop_event' = TRUE
    /\ Issued(<<>>)
    /\ MainGoto("stop_clear")
    /\ UNCHANGED <<audio_queue, unfinished_tasks, skip, back, back_number,
                   print_complete, audio_player, sinkVars, genVars, playVars,
                   speak_pc, envVars, m_cmd, data, m_tmp, current_thread, back_calls, obsRest>>

\* Lines 340-341: the queue is emptied.
StopClear ==
    /\ m_pc = "stop_clear"
    /\ audio_queue' = <<>>
    /\ MainGoto(AfterStop)
    /\ UNCHANGED <<unfinished_tasks, stop_event, skip, back, back_number,
                   print_complete, audio_player, sinkVars, genVars, playVars,
                   speak_pc, envVars, m_cmd, data, m_tmp, current_thread, back_calls, obsVars>>

stop_playback == StopSet \/ StopClear

\* Line 333, second half: the incremented counter is stored.
BackStore ==
    /\ m_pc = "back_store"
    /\ back_number' = m_tmp + 1
    /\ m_tmp' = 0
    /\ MainGoto("back_set")
    /\ UNCHANGED <<audio_queue, unfinished_tasks, stop_event, skip, back,
                   print_complete, audio_player, sinkVars, genVars, playVars,
                   speak_pc, envVars, m_cmd, data, current_thread, back_calls, obsVars>>

\* Line 334: self.back.set()
BackSet ==
    /\ m_pc = "back_set"
    /\ back' = TRUE
    /\ MainGoto("idle")
    /\ UNCHANGED <<audio_queue, unfinished_tasks, stop_event, skip, back_number,
                   print_complete, audio_player, sinkVars, genVars, playVars,
                   speak_pc, envVars, m_cmd, data, m_tmp, current_thread, back_calls, obsVars>>

\* ---------------------------------------------------------------- run_daemon
\* current_thread is not None and current_thread.is_alive()
ThreadAlive == current_thread # 0 /\ SpeakAlive(current_thread)

\* The thread objects and the observations of the sessions that are over
\* are dropped when a new session begins.
Forget(f, init) == [s \in Sessions |-> IF Over(s) THEN init ELSE f[s]]

ForgetOver ==
    /\ sentinels' = Forget(sentinels, 0)
    /\ late_put' = Forget(late_put, FALSE)
    /\ gen_exit' = Forget(gen_exit, "none")
    /\ sunk' = Forget(sunk, <<>>)
    /\ complete' = Forget(complete, 0)
    /\ exit_stop' = Forget(exit_stop, FALSE)
    /\ plain' = Forget(plain, TRUE)
    /\ req' = <<>>
    /\ soft_int' = Forget(soft_int, FALSE)
    /\ gen_put' = Forget(gen_put, 0)
    /\ gen_pc' = Forget(gen_pc, "idle")
    /\ play_pc' = Forget(play_pc, "idle")

\* threading.Thread(target=speak_thread, ...).start() for a text of n sentences.
StartThread(n) ==
    /\ current_thread' = current_thread + 1
    /\ speak_pc' = [Forget(speak_pc, "idle") EXCEPT ![current_thread + 1] = "clear"]
    /\ gen_len' = [gen_len EXCEPT ![current_thread + 1] = n]
    /\ ForgetOver

NoStart == UNCHANGED <<current_thread, speak_pc, gen_len, gen_put, gen_pc, play_pc,
                       obsVars>>

\* The sentences of the session a command starts.
TextLen(cmd) == IF cmd = "status" THEN 1 ELSE MaxSentences

\* A handler that starts the new thread without looking at the old one.
StartsAtOnce == FALSE

\* Lines 275 and 297: whether the handler stops and joins the live thread
\* before it goes on.
StopsFirst == ThreadAlive

\* A message is << prefix, body >>.  The prefix is "TEXT:" or "" (an IMAGE:
\* message goes through the OCR reader and is left out).  The body begins
\* with its first character: << "!", "stop" >> is "!stop", << "!", "speed",
\* arg >> is "!speed <arg>", << "h", "ello" >> is a text.
Undecodable == <<"0xff">>

\* data[5:].decode() and data.decode() (lines 222-225) succeed.
Decodes(d) == d[2] # Undecodable

\* clipboard_data.startswith("!") (line 230)
IsCommand(d) == d[2] # <<>> /\ d[2][1] = "!"

\* Lines 230-233 and the if chain of 235-310: the handler a message is given
\* to; "text" is the else branch of line 296.
Command(d) ==
    IF IsCommand(d)
    THEN (IF Len(d[2]) > 1 THEN d[2][2] ELSE "")
    ELSE "text"

\* The message without prefix that reaches the handler of cmd.
Raw(cmd) == <<"", IF cmd = "text" THEN <<"h", "ello">> ELSE <<"!", cmd>> >>

\* The handler of a content message (lines 296-310) or of !status (274-278,
\* 286-295).
Content(cmd) ==
    /\ mode = "daemon" /\ m_pc = "idle"
    /\ current_thread < MaxSessions
    /\ m_cmd' = cmd
    /\ IF StopsFirst
       THEN /\ MainGoto("stop_set")
            /\ NoStart
       ELSE /\ MainGoto("idle")
            /\ StartThread(TextLen(cmd))
    /\ UNCHANGED <<playerVars, sinkVars, gen_sent, audio_chunks, c_back_number,
                   audio, c_tmp, envVars, m_tmp, back_calls>>

\* A content message or !status is received.
DaemonContent ==
    \E cmd \in {"text", "status"} : Content(cmd) /\ data' = Raw(cmd)

\* The handler of !stop and !exit (lines 274-285).  !stop with no live
\* thread does nothing.
StopExit(cmd) ==
    /\ mode = "daemon" /\ m_pc = "idle"
    /\ m_cmd' = cmd
    /\ IF ThreadAlive THEN MainGoto("stop_set")
       ELSE /\ cmd = "exit"
            /\ MainGoto("exited")
    /\ UNCHANGED <<playerVars, sinkVars, genVars, playVars, speak_pc,
                   envVars, m_tmp, current_thread, back_calls, obsVars>>

\* !stop or !exit is received.
DaemonStopExit ==
    \E cmd \in {"stop", "exit"} : StopExit(cmd) /\ data' = Raw(cmd)

\* Messages with the prefix the client puts before the text of the
\* clipboard (client.py 104-114).
TextMessages ==
    {<<"TEXT:", b>> : b \in {<<"h", "ello">>, <<"!", "status">>,
                              <<"!", "stop">>, <<"!", "exit">>}}

\* A TEXT: message is received: lines 222-223 strip the prefix, then the
\* dispatch of lines 230-310 is applied to what is left.
DaemonTextMessage ==
    \E d \in TextMessages :
        /\ data' = d
        /\ IF Command(d) \in {"text", "status"} THEN Content(Command(d))
                                                  ELSE StopExit(Command(d))

\* What a settings command leaves alone.
settingFrame ==
    <<playerVars, sinkVars, genVars, playVars, speak_pc, mode, ctrlc,
      running_threads, paused, snap, torn, sink_failed, textVars, m_pc, m_tmp,
      current_thread, back_calls, obsVars>>

\* The message of a settings command.
SettingMessage(cmd, arg) == <<"", <<"!", cmd, arg>> >>

\* !lang <arg> (lines 235-246)
Lang(arg) ==
    /\ mode = "daemon" /\ m_pc = "idle"
    /\ m_cmd' = "lang" /\ data' = SettingMessage("lang", arg)
    /\ change_language(arg)
    /\ UNCHANGED <<speed, settingFrame>>

\* !voice <arg> (lines 248-252)
Voice(arg) ==
    /\ mode = "daemon" /\ m_pc = "idle"
    /\ m_cmd' = "voice" /\ data' = SettingMessage("voice", arg)
    /\ change_voice(arg)
    /\ UNCHANGED <<language, pipeline, speed, settingFrame>>

\* The argument of !speed is << "num", n >>, a text float() turns into n
\* tenths, or a text on which float() raises ValueError.
Parses(arg) == arg[1] = "num"

Float(arg) == arg[2]

\* !speed <arg> (lines 254-264)
Speed(arg) ==
    /\ mode = "daemon" /\ m_pc = "idle"
    /\ m_cmd' = "speed" /\ data' = SettingMessage("speed", arg)
    /\ IF Parses(arg)
       THEN change_speed(Float(arg))
       ELSE UNCHANGED speed /\ result' = "ValueError"
    /\ UNCHANGED <<language, pipeline, voice, settingFrame>>

LangArgs == Languages \cup {"x"}
VoiceArgs == KnownVoices \cup {<<"x", "x_bad">>}
SpeedArgs == {<<"num", n>> : n \in {4, 5, 15, 20, 21}} \cup {<<"abc">>}

DaemonLang == \E arg \in LangArgs : Lang(arg)
DaemonVoice == \E arg \in VoiceArgs : Voice(arg)
DaemonSpeed == \E arg \in SpeedArgs : Speed(arg)

\* A message that is not UTF-8: decode() raises UnicodeDecodeError inside
\* the try block of line 195.
DaemonUndecodable ==
    /\ mode = "daemon" /\ m_pc = "idle"
    /\ \E prefix \in {"TEXT:", ""} : data' = <<prefix, Undecodable>>
    /\ MainGoto("error")
    /\ m_cmd' = "error"
    /\ UNCHANGED <<playerVars, sinkVars, genVars, playVars, speak_pc,
                   envVars, m_tmp, current_thread, back_calls, obsVars>>

\* current_thread.join() (lines 278, 300), then the rest of the handler.
DaemonJoin ==
    /\ mode = "daemon" /\ m_pc = "join"
    /\ ~ThreadAlive
    /\ IF m_cmd \in {"text", "status"}
       THEN /\ MainGoto("idle")
            /\ StartThread(TextLen(m_cmd))
       ELSE /\ MainGoto(IF m_cmd = "exit" THEN "exited" ELSE "idle")
            /\ NoStart
    /\ UNCHANGED <<playerVars, sinkVars, gen_sent, audio_chunks, c_back_number,
                   audio, c_tmp, envVars, m_cmd, data, m_tmp, back_calls>>

\* !pause and !resume (lines 266-269).  Before the first session
\* self.audio_player is None and the call raises; the handler of line 318
\* catches it.
DaemonPauseResume ==
    /\ mode = "daemon" /\ m_pc = "idle"
    /\ \E p \in BOOLEAN :
         IF audio_player
         THEN /\ playing' = p
              /\ paused' = ~p
              /\ UNCHANGED <<m_pc, m_cmd>>
         ELSE /\ MainGoto("error")
              /\ m_cmd' = "error"
              /\ UNCHANGED <<playing, paused>>
    /\ UNCHANGED <<playerVars, current_audio, current_frame, genVars, playVars,
                   speak_pc, procVars, snap, torn, sink_failed, result,
                   data, m_tmp, current_thread, back_calls, obsVars>>

\* !back (line 271): back_sentence starts by reading self.back_number.
DaemonBack ==
    /\ mode = "daemon" /\ m_pc = "idle"
    /\ back_calls < MaxBack
    /\ back_calls' = back_calls + 1
    /\ m_tmp' = back_number
    /\ Issued(Found("back"))
    /\ MainGoto("back_store")
    /\ UNCHANGED <<playerVars, sinkVars, genVars, playVars, speak_pc,
                   envVars, m_cmd, data, current_thread, obsRest>>

\* !next (line 273): skip_sentence
DaemonNext ==
    /\ mode = "daemon" /\ m_pc = "idle"
    /\ skip' = TRUE
    /\ Issued(Found("skip"))
    /\ UNCHANGED <<audio_queue, unfinished_tasks, stop_event, back, back_number,
                   print_complete, audio_player, sinkVars, genVars, playVars,
                   speak_pc, mainVars, obsRest>>

\* Lines 318-322: the handler of an exception raised in the loop.
DaemonError ==
    /\ mode = "daemon" /\ m_pc = "error"
    /\ MainGoto(IF ThreadAlive THEN "stop_set" ELSE "diag")
    /\ UNCHANGED <<playerVars, sinkVars, genVars, playVars, speak_pc,
                   envVars, m_cmd, data, m_tmp, current_thread, back_calls, obsVars>>

\* Line 322: current_thread.join(timeout=1) returns when the thread has ended
\* or the second has passed.
DaemonJoinTimeout ==
    /\ mode = "daemon" /\ m_pc = "join_timeout"
    /\ MainGoto("diag")
    /\ UNCHANGED <<playerVars, sinkVars, genVars, playVars, speak_pc,
                   envVars, m_cmd, data, m_tmp, current_thread, back_calls, obsVars>>

\* Lines 323-346: run_cli speaks the diagnostic on a TTSPlayer of its own,
\* run_daemon returns and the process ends.
DaemonDiag ==
    /\ mode = "daemon" /\ m_pc = "diag"
    /\ MainGoto("exited")
    /\ UNCHANGED <<playerVars, sinkVars, genVars, playVars, speak_pc,
                   envVars, m_cmd, data, m_tmp, current_thread, back_calls, obsVars>>

run_daemon ==
    \/ DaemonContent \/ DaemonStopExit \/ DaemonJoin \/ DaemonPauseResume
    \/ DaemonBack \/ DaemonNext \/ DaemonError \/ DaemonJoinTimeout \/ DaemonDiag

\* A bind that lets the failure pass.
BindSwallowed ==
    /\ MainGoto("idle")
    /\ UNCHANGED m_cmd

\* server_socket.bind raises OSError inside the try block of line 195: the
\* handler of line 318 is entered.
BindRaises ==
    /\ MainGoto("error")
    /\ m_cmd' = "error"

\* Lines 196-199: the socket is bound and listens, or bind raises.
DaemonBind ==
    /\ mode = "daemon" /\ m_pc = "bind"
    /\ \E ok \in BOOLEAN :
         /\ bind_failed' = ~ok
         /\ IF ok THEN MainGoto("idle") /\ UNCHANGED m_cmd
                  ELSE BindRaises
    /\ UNCHANGED <<playerVars, sinkVars, genVars, playVars, speak_pc, mode, ctrlc,
                   running_threads, cfgVars, ctlObs, sinkObs, guiVars, sentences, new_sentences,
                   content, entries, data, m_tmp, current_thread, back_calls,
                   obsVars>>

\* ------------------------------------------------------------ specifications
\* The player as TTSPlayer.__init__ leaves it, but for its settings, and
\* the locals of the controller.
InitFields ==
    /\ audio_queue = <<>> /\ unfinished_tasks = 0
    /\ stop_event = FALSE /\ skip = FALSE /\ back = FALSE
    /\ back_number = 0
    /\ print_complete = TRUE
    /\ audio_player = FALSE
    /\ current_audio = None /\ playing = TRUE /\ current_frame = 0
    /\ gen_pc = [s \in Sessions |-> "idle"]
    /\ gen_sent = [s \in Sessions |-> 0]
    /\ gen_len = [s \in Sessions |-> 0]
    /\ gen_put = [s \in Sessions |-> 0]
    /\ play_pc = [s \in Sessions |-> "idle"]
    /\ audio_chunks = [s \in Sessions |-> <<>>]
    /\ c_back_number = [s \in Sessions |-> 0]
    /\ audio = [s \in Sessions |-> None]
    /\ c_tmp = [s \in Sessions |-> 0]
    /\ speak_pc = [s \in Sessions |-> "idle"]
    /\ m_cmd = "none" /\ m_tmp = 0
    /\ current_thread = 0 /\ back_calls = 0
    /\ sentinels = [s \in Sessions |-> 0]
    /\ late_put = [s \in Sessions |-> FALSE]
    /\ gen_exit = [s \in Sessions |-> "none"]
    /\ sunk = [s \in Sessions |-> <<>>]
    /\ complete = [s \in Sessions |-> 0]
    /\ exit_stop = [s \in Sessions |-> FALSE]
    /\ plain = [s \in Sessions |-> TRUE]
    /\ req = <<>>
    /\ soft_int = [s \in Sessions |-> FALSE]
    /\ running_threads = 1
    /\ data = <<>>
    /\ snap = [s \in Sessions |-> <<>>]
    /\ paused = FALSE
    /\ torn = [s \in Sessions |-> 0]
    /\ sink_failed = [s \in Sessions |-> FALSE]
    /\ result = "none"
    /\ sentences = <<>> /\ new_sentences = <<>>
    /\ content = <<>> /\ entries = <<>>
    /\ bind_failed = FALSE
    /\ outdata = <<>>
    /\ highlighted = <<>>

\* The controller is ready for its first input; speak() is called without
\* an observer.
InitRun == InitFields /\ m_pc = "idle" /\ gui_highlight = FALSE

\* The settings the command line gives when no option is used.
DefaultSettings ==
    /\ language = DEFAULT_LANGUAGE /\ pipeline = DEFAULT_LANGUAGE
    /\ voice = DEFAULT_VOICE
    /\ speed = DEFAULT_SPEED

InitPlayer == InitRun /\ DefaultSettings

Threads ==
    \E s \in Sessions : generate_audio(s) \/ play_audio(s) \/ speak(s)

\* The steps of play_audio in a run without back_sentence calls: back_number
\* stays 0, so the decrement of line 318 is never reached.
play_audio_forward(s) ==
    \/ PlayInit(s) \/ PlayHead(s) \/ PlayClamp(s) \/ PlayFetch(s) \/ PlayGet(s)
    \/ PlayPlay(s) \/ PlayPoll(s) \/ PlayAfter(s)
    \/ PlayTaskDone(s) \/ PlayEnd(s)

ThreadsForward ==
    \E s \in Sessions : generate_audio(s) \/ play_audio_forward(s) \/ speak(s)

InitDaemon == InitPlayer /\ mode = "daemon" /\ ctrlc = FALSE

\* run_daemon receiving content, !status, !stop and !exit.
NextDaemon ==
    \/ ThreadsForward \/ Callback
    \/ stop_playback
    \/ DaemonContent \/ DaemonStopExit \/ DaemonJoin

SpecDaemon == InitDaemon /\ [][NextDaemon]_vars
\* The first content message of a run (lines 296-310 with no thread yet).
DaemonFirstContent ==
    /\ current_thread = 0
    /\ DaemonContent

\* run_daemon receiving one content message and the commands !back and
\* !next.
NextNav ==
    \/ Threads \/ Callback
    \/ DaemonFirstContent
    \/ DaemonBack \/ BackStore \/ BackSet \/ DaemonNext

SpecNav == InitDaemon /\ [][NextNav]_vars

\* run_daemon receiving one content message, !pause, !resume, !stop, !exit
\* and messages that are not UTF-8.
NextControl ==
    \/ ThreadsForward \/ Callback
    \/ stop_playback
    \/ DaemonFirstContent \/ DaemonStopExit \/ DaemonJoin
    \/ DaemonPauseResume \/ DaemonUndecodable
    \/ DaemonError \/ DaemonJoinTimeout \/ DaemonDiag

SpecControl == InitDaemon /\ [][NextControl]_vars

\* The settings the command line lets through (input_hander.py 208-232): a
\* known language, a known voice of that language, a speed in range.
ValidatedSettings ==
    /\ language \in Languages /\ pipeline = language
    /\ voice \in {v \in KnownVoices : StartsWith(v, language)}
    /\ speed \in {MIN_SPEED, DEFAULT_SPEED, MAX_SPEED}

InitConfig == InitRun /\ ValidatedSettings /\ mode = "daemon" /\ ctrlc = FALSE

\* run_daemon receiving !lang, !voice and !speed.
NextConfig == DaemonLang \/ DaemonVoice \/ DaemonSpeed

SpecConfig == InitConfig /\ [][NextConfig]_vars

\* The audio device cannot be opened in some session.
SinkFailure == \E s \in Sessions : PlayInitFail(s)

\* run_daemon receiving one content message, with an audio device that may
\* fail to open.
NextFault ==
    \/ ThreadsForward \/ SinkFailure \/ Callback
    \/ DaemonFirstContent

SpecFault == InitDaemon /\ [][NextFault]_vars

\* run_daemon receiving the messages a client sends with the TEXT: prefix.
NextWire ==
    \/ ThreadsForward \/ Callback
    \/ stop_playback
    \/ DaemonTextMessage \/ DaemonJoin

SpecWire == InitDaemon /\ [][NextWire]_vars

\* A settings command received while the session thread is alive.
DaemonRetune ==
    /\ ThreadAlive
    /\ \/ Lang("b")
       \/ Voice(<<"a", "f_alloy">>)
       \/ Speed(<<"num", 15>>)

\* run_daemon receiving one content message and settings commands while
\* the session runs.
NextTear ==
    \/ ThreadsForward \/ Callback
    \/ DaemonFirstContent
    \/ DaemonRetune

SpecTear == InitDaemon /\ [][NextTear]_vars

\* --------------------------------------------------------------- run_console
\* threading.active_count(): the main thread and the live session threads.
ActiveCount ==
    1 + Cardinality({s \in Sessions : GenAlive(s)})
      + Cardinality({s \in Sessions : PlayAlive(s)})

\* A test that never sees a live session.
NoneDetected == FALSE

\* The test of lines 510, 513, 545, 548 and 550.
SessionDetected == ActiveCount > running_threads

\* Line 558: player.speak(sentences) on the main thread.
CallSpeak ==
    /\ MainGoto("speak")
    /\ StartThread(MaxSentences)

\* A line of text is entered (lines 544-558).
ConsoleText ==
    /\ mode = "console" /\ m_pc = "idle"
    /\ current_thread < MaxSessions
    /\ m_cmd' = "text"
    /\ IF SessionDetected
       THEN MainGoto("stop_set") /\ NoStart
       ELSE CallSpeak
    /\ UNCHANGED <<playerVars, sinkVars, gen_sent, audio_chunks, c_back_number,
                   audio, c_tmp, envVars, data, m_tmp, back_calls>>

\* !quit (lines 508-518)
ConsoleQuit ==
    /\ mode = "console" /\ m_pc = "idle"
    /\ m_cmd' = "quit"
    /\ MainGoto(IF SessionDetected THEN "stop_set" ELSE "exited")
    /\ UNCHANGED <<playerVars, sinkVars, genVars, playVars, speak_pc, envVars,
                   data, m_tmp, current_thread, back_calls, obsVars>>

\* !stop (lines 481-482)
ConsoleStop ==
    /\ mode = "console" /\ m_pc = "idle"
    /\ m_cmd' = "stop"
    /\ MainGoto("stop_set")
    /\ UNCHANGED <<playerVars, sinkVars, genVars, playVars, speak_pc, envVars,
                   data, m_tmp, current_thread, back_calls, obsVars>>

\* A thread that no passage of time ends: a consumer in get() on an empty
\* queue whose producer has returned.
Blocked(s) ==
    /\ ~GenAlive(s)
    /\ PlayAlive(s) => play_pc[s] = "get" /\ audio_queue = <<>>

\* A wait that ends only when the session threads have.
ThreadsGone == ~SessionDetected

\* The loop of lines 548-549 (and 513-514) is left: every session thread has
\* ended, or TIMEOUT has passed.  TIMEOUT is taken to outlast every thread
\* that is able to end, so the wait times out on blocked threads only.
WaitOver == SessionDetected => \A s \in Sessions : Blocked(s)

\* The bounded wait (lines 547-552, 512-517) ends: the threads are gone, or
\* TIMEOUT has passed with threads still alive and running_threads is raised.
ConsoleWait ==
    /\ mode = "console" /\ m_pc = "wait"
    /\ WaitOver
    /\ running_threads' = IF SessionDetected THEN running_threads + 1
                                              ELSE running_threads
    /\ IF m_cmd = "quit"
       THEN MainGoto("exited") /\ NoStart
       ELSE CallSpeak
    /\ UNCHANGED <<playerVars, sinkVars, gen_sent, audio_chunks, c_back_number,
                   audio, c_tmp, mode, ctrlc, cfgVars, ctlObs, textVars, m_cmd, data, m_tmp,
                   back_calls>>

\* The interrupt handlers clear print_complete in soft mode.
SoftInterrupt ==
    /\ print_complete' = FALSE
    /\ soft_int' = [s \in Sessions |-> soft_int[s] \/ Begun(s)]

\* speak() statements inside its try block (lines 370-379).
InTry(s) == speak_pc[s] \in {"start_gen", "start_play", "join_play", "join_gen"}

\* KeyboardInterrupt inside the try block of speak (lines 380-389).
ConsoleInterruptSpeak ==
    /\ mode = "console" /\ m_pc = "speak"
    /\ InTry(current_thread)
    /\ IF ctrlc
       THEN /\ m_cmd' = "except"
            /\ MainGoto("stop_set")
            /\ speak_pc' = [speak_pc EXCEPT ![current_thread] = "except"]
            /\ UNCHANGED <<print_complete, soft_int>>
       ELSE /\ SoftInterrupt
            /\ MainGoto("idle")
            /\ speak_pc' = [speak_pc EXCEPT ![current_thread] = "done"]
            /\ UNCHANGED m_cmd
    /\ UNCHANGED <<audio_queue, unfinished_tasks, stop_event, skip, back, back_number,
                   audio_player, sinkVars, genVars, playVars, envVars, data, m_tmp,
                   current_thread, back_calls, sentinels, late_put, gen_exit, sunk, complete,
                   exit_stop, plain, req>>

\* Lines 384 and 393: gen_thread.join() in the handler of speak.  Joining a
\* thread that was never started raises RuntimeError, which run_console
\* reports (line 569).
ConsoleHandlerJoinGen ==
    /\ mode = "console" /\ m_pc = "h_join_gen"
    /\ ~GenAlive(current_thread)
    /\ IF gen_pc[current_thread] = "idle"
       THEN /\ MainGoto("idle")
            /\ speak_pc' = [speak_pc EXCEPT ![current_thread] = "done"]
       ELSE /\ MainGoto("h_join_play")
            /\ UNCHANGED speak_pc
    /\ UNCHANGED <<playerVars, sinkVars, genVars, playVars, envVars, m_cmd, data, m_tmp,
                   current_thread, back_calls, obsVars>>

\* Lines 385 and 394: play_thread.join(), then speak returns.
ConsoleHandlerJoinPlay ==
    /\ mode = "console" /\ m_pc = "h_join_play"
    /\ ~PlayAlive(current_thread)
    /\ MainGoto("idle")
    /\ speak_pc' = [speak_pc EXCEPT ![current_thread] = "done"]
    /\ UNCHANGED <<playerVars, sinkVars, genVars, playVars, envVars, m_cmd, data, m_tmp,
                   current_thread, back_calls, obsVars>>

\* Where a KeyboardInterrupt reaches the handler of run_console (lines
\* 560-566): at the prompt, in the bounded wait, in speak outside its try
\* block, and in the joins of speak's own handler.
OutsideTry ==
    \/ m_pc \in {"idle", "wait", "h_join_gen", "h_join_play"}
    \/ m_pc = "speak" /\ ~InTry(current_thread)

ConsoleInterrupt ==
    /\ mode = "console" /\ OutsideTry
    /\ IF ctrlc
       THEN /\ m_cmd' = "interrupt"
            /\ MainGoto("stop_set")
            /\ UNCHANGED <<print_complete, soft_int>>
       ELSE /\ SoftInterrupt
            /\ MainGoto("idle")
            /\ UNCHANGED m_cmd
    /\ speak_pc' = [s \in Sessions |->
                       IF s = current_thread /\ SpeakAlive(s) THEN "done" ELSE speak_pc[s]]
    /\ UNCHANGED <<audio_queue, unfinished_tasks, stop_event, skip, back, back_number,
                   audio_player, sinkVars, genVars, playVars, envVars, data, m_tmp,
                   current_thread, back_calls, sentinels, late_put, gen_exit, sunk, complete,
                   exit_stop, plain, req>>

run_console ==
    \/ ConsoleText \/ ConsoleQuit \/ ConsoleStop \/ ConsoleWait
    \/ ConsoleInterruptSpeak \/ ConsoleHandlerJoinGen \/ ConsoleHandlerJoinPlay
    \/ ConsoleInterrupt

InitConsole == InitPlayer /\ mode = "console" /\ ctrlc \in BOOLEAN

\* run_console receiving lines of text, with Ctrl+C pressed while speak()
\* waits for its threads.
NextConsole ==
    \/ ThreadsForward \/ Callback
    \/ stop_playback
    \/ ConsoleText \/ ConsoleWait
    \/ ConsoleInterruptSpeak \/ ConsoleHandlerJoinGen \/ ConsoleHandlerJoinPlay

SpecConsole == InitConsole /\ [][NextConsole]_vars

\* The bounded wait (lines 547-552, 512-517) left because TIMEOUT has passed
\* while a session thread is still at work - a synthesis step, or a chunk in
\* a paused sink, that lasts longer than TIMEOUT.
ConsoleTimeout ==
    /\ mode = "console" /\ m_pc = "wait"
    /\ SessionDetected
    /\ running_threads' = running_threads + 1
    /\ IF m_cmd = "quit"
       THEN MainGoto("exited") /\ NoStart
       ELSE CallSpeak
    /\ UNCHANGED <<playerVars, sinkVars, gen_sent, audio_chunks, c_back_number,
                   audio, c_tmp, mode, ctrlc, cfgVars, ctlObs, textVars, m_cmd, data, m_tmp,
                   back_calls>>


\* -------------------------------------------------------------------- run_cli
\* Line 400: player.speak(sentences, console_mode=False) on the main thread.
CliSpeak ==
    /\ mode = "cli" /\ m_pc = "idle"
    /\ current_thread = 0
    /\ m_cmd' = "text"
    /\ CallSpeak
    /\ UNCHANGED <<playerVars, sinkVars, gen_sent, audio_chunks, c_back_number,
                   audio, c_tmp, envVars, data, m_tmp, back_calls>>

\* KeyboardInterrupt inside the try block of speak with console_mode False
\* (lines 380, 390-392).
CliInterruptSpeak ==
    /\ mode = "cli" /\ m_pc = "speak"
    /\ InTry(current_thread)
    /\ m_cmd' = "except"
    /\ MainGoto("stop_set")
    /\ speak_pc' = [speak_pc EXCEPT ![current_thread] = "except"]
    /\ UNCHANGED <<playerVars, sinkVars, genVars, playVars, envVars, data, m_tmp,
                   current_thread, back_calls, obsVars>>

\* An exit that does not wait for the producer.
CliNoJoinGen ==
    /\ mode = "cli" /\ m_pc = "h_join_gen"
    /\ MainGoto("exited")
    /\ speak_pc' = [speak_pc EXCEPT ![current_thread] = "done"]
    /\ UNCHANGED <<playerVars, sinkVars, genVars, playVars, envVars, m_cmd, data, m_tmp,
                   current_thread, back_calls, obsVars>>

\* Line 393: gen_thread.join().  On a thread that was never started it
\* raises RuntimeError, which nothing in run_cli catches: main reports it
\* (run.py 169-170) and the process ends.
CliHandlerJoinGen ==
    /\ mode = "cli" /\ m_pc = "h_join_gen"
    /\ ~GenAlive(current_thread)
    /\ IF gen_pc[current_thread] = "idle"
       THEN /\ MainGoto("exited")
            /\ speak_pc' = [speak_pc EXCEPT ![current_thread] = "done"]
       ELSE /\ MainGoto("h_join_play")
            /\ UNCHANGED speak_pc
    /\ UNCHANGED <<playerVars, sinkVars, genVars, playVars, envVars, m_cmd, data, m_tmp,
                   current_thread, back_calls, obsVars>>

\* Lines 394-395: play_thread.join(), then sys.exit().
CliHandlerJoinPlay ==
    /\ mode = "cli" /\ m_pc = "h_join_play"
    /\ ~PlayAlive(current_thread)
    /\ MainGoto("exited")
    /\ speak_pc' = [speak_pc EXCEPT ![current_thread] = "done"]
    /\ UNCHANGED <<playerVars, sinkVars, genVars, playVars, envVars, m_cmd, data, m_tmp,
                   current_thread, back_calls, obsVars>>

run_cli == CliSpeak \/ CliInterruptSpeak \/ CliHandlerJoinGen \/ CliHandlerJoinPlay

\* Lines 336-344 when no session has run: run_cli builds a TTSPlayer of its
\* own, which is in the state the unused player of run_daemon is in, and
\* calls speak on the main thread (line 400).
DaemonDiagSpeak ==
    /\ mode = "daemon" /\ m_pc = "diag"
    /\ current_thread = 0
    /\ CallSpeak
    /\ UNCHANGED <<playerVars, sinkVars, gen_sent, audio_chunks, c_back_number,
                   audio, c_tmp, envVars, m_cmd, data, m_tmp, back_calls>>

\* The hard mode of speak's interrupt handler: run_console with player.ctrlc
\* True, and run_cli, whose speak runs with console_mode False (its player
\* is built with the default ctrlc, line 393).
InitHard ==
    /\ InitPlayer
    /\ \/ mode = "console" /\ ctrlc = TRUE
       \/ mode = "cli" /\ ctrlc = FALSE

\* Lines of text entered at the console, or one text spoken by run_cli, with
\* Ctrl+C pressed while speak() waits for its threads.
NextHard ==
    \/ ThreadsForward \/ Callback
    \/ stop_playback
    \/ ConsoleText
    \/ ConsoleInterruptSpeak \/ ConsoleHandlerJoinGen \/ ConsoleHandlerJoinPlay
    \/ CliSpeak \/ CliInterruptSpeak \/ CliHandlerJoinGen \/ CliHandlerJoinPlay

SpecHard == InitHard /\ [][NextHard]_vars

\* run_daemon from its first statement: the bind, then the first content
\* message, or the handler of line 318 and its spoken diagnostic.
InitBind ==
    /\ InitFields /\ DefaultSettings /\ gui_highlight = FALSE
    /\ m_pc = "bind" /\ mode = "daemon" /\ ctrlc = FALSE

NextBind ==
    \/ ThreadsForward \/ Callback
    \/ DaemonBind \/ DaemonFirstContent
    \/ DaemonError \/ DaemonDiagSpeak

SpecBind == InitBind /\ [][NextBind]_vars

\* run_console receiving lines of text, with Ctrl+C pressed while speak()
\* waits for its threads and an audio device that may fail to open.
NextJoin ==
    \/ ThreadsForward \/ SinkFailure \/ Callback
    \/ stop_playback
    \/ ConsoleText \/ ConsoleWait
    \/ ConsoleInterruptSpeak \/ ConsoleHandlerJoinGen \/ ConsoleHandlerJoinPlay

SpecJoin == InitConsole /\ [][NextJoin]_vars

\* run_console started so that Ctrl+C gives a new line (player.ctrlc is
\* False), receiving lines of text and !quit, with Ctrl+C pressed while
\* speak() waits for its threads.
InitSoft == InitPlayer /\ mode = "console" /\ ctrlc = FALSE

NextSoft ==
    \/ ThreadsForward \/ Callback
    \/ stop_playback
    \/ ConsoleText \/ ConsoleQuit \/ ConsoleWait
    \/ ConsoleInterruptSpeak

SpecSoft == InitSoft /\ [][NextSoft]_vars

\* run_console receiving lines of text, Ctrl+C giving a new line, with
\* session threads that can take longer than TIMEOUT; the behaviours looked
\* at are those in which no chunk reaches its end in the sink.
NextSlow ==
    \/ ThreadsForward
    \/ stop_playback
    \/ ConsoleText \/ ConsoleWait \/ ConsoleTimeout
    \/ ConsoleInterruptSpeak

SpecSlow == InitSoft /\ [][NextSlow]_vars

\* ------------------------------------------- utils.py: the sentence splitter
\* A text is the sequence of its characters.  The splitter looks at a text
\* only through its length, the places of " ", of "," and ";" and of white
\* space, so one letter stands for every other character, and the two length
\* limits, parameters of split_long_sentence (350 and 50 in the calls of the
\* program), are scaled down with the texts.
MAX_LEN == 4
MIN_LEN == 3
MaxText == 9          \* characters of a sentence

Letter == "a"
Whitespace == {" ", "\n"}
Alphabet == {Letter, ",", " ", "\n"}

\* s[i:j] of Python, for 0 <= i <= j <= len(s).
Slice(s, i, j) == SubSeq(s, i + 1, j)

\* str.isspace(): the text is not empty and all of it is white space.
IsSpace(s) == s # <<>> /\ \A i \in 1..Len(s) : s[i] \in Whitespace

\* The index of the first " " of the text, 0 when it has none.
FirstSpace(s) ==
    IF \E i \in 1..Len(s) : s[i] = " "
    THEN CHOOSE i \in 1..Len(s) : s[i] = " " /\ \A j \in 1..(i - 1) : s[j] # " "
    ELSE 0

\* chunk.split(" ")
RECURSIVE SplitSpace(_)
SplitSpace(chunk) ==
    LET i == FirstSpace(chunk)
    IN IF i = 0 THEN <<chunk>>
       ELSE <<SubSeq(chunk, 1, i - 1)>> \o SplitSpace(SubSeq(chunk, i + 1, Len(chunk)))

\* Lines 364-366: the loop that cuts a word longer than max_len.
RECURSIVE HardCut(_, _, _)
HardCut(word, chunks, max_len) ==
    IF Len(word) > max_len
    THEN HardCut(SubSeq(word, max_len + 1, Len(word)),
                 Append(chunks, SubSeq(word, 1, max_len)), max_len)
    ELSE [chunks |-> chunks, word |-> word]

\* Lines 357-369: the loop over the words.
RECURSIVE WordLoop(_, _, _, _)
WordLoop(words, chunks, current_chunk, max_len) ==
    IF words = <<>> THEN [chunks |-> chunks, current_chunk |-> current_chunk]
    ELSE LET word == Head(words)
             sep == IF current_chunk # <<>> THEN <<" ">> ELSE <<>>
         IN IF Len(current_chunk) + Len(word) + Len(sep) > max_len
            THEN IF current_chunk # <<>>
                 THEN WordLoop(Tail(words), Append(chunks, current_chunk), word,
                               max_len)
                 ELSE LET cut == HardCut(word, chunks, max_len)
                      IN WordLoop(Tail(words), cut.chunks, cut.word, max_len)
            ELSE WordLoop(Tail(words), chunks, current_chunk \o sep \o word,
                          max_len)

split_by_words(chunk, max_len) ==
    IF Len(chunk) <= max_len THEN <<chunk>>
    ELSE LET r == WordLoop(SplitSpace(chunk), <<>>, <<>>, max_len)
         IN IF r.current_chunk # <<>> THEN Append(r.chunks, r.current_chunk)
                                      ELSE r.chunks

\* re.finditer(r"[,;]\s", chunk) has a match that starts at pos (0-based).
SplitPoint(chunk, pos) ==
    /\ pos + 2 <= Len(chunk)
    /\ chunk[pos + 1] \in {",", ";"}
    /\ chunk[pos + 2] \in Whitespace

\* Line 398: chunks[-1] += segment
MergeShort(chunks, segment) ==
    [chunks EXCEPT ![Len(chunks)] = @ \o segment]

\* Lines 390-401: the loop over the split points, pos going through the
\* text; the result is the chunks and last_pos.
RECURSIVE ClauseLoop(_, _, _, _, _, _)
ClauseLoop(chunk, pos, last_pos, chunks, max_len, min_len) ==
    IF pos + 2 > Len(chunk) THEN [chunks |-> chunks, last_pos |-> last_pos]
    ELSE IF ~SplitPoint(chunk, pos)
    THEN ClauseLoop(chunk, pos + 1, last_pos, chunks, max_len, min_len)
    ELSE LET next_pos == pos + 2
             segment == Slice(chunk, last_pos, next_pos)
         IN ClauseLoop(chunk, next_pos, next_pos,
                       IF Len(segment) > max_len
                       THEN chunks \o split_by_words(segment, max_len)
                       ELSE IF Len(segment) < min_len /\ last_pos > 0
                       THEN MergeShort(chunks, segment)
                       ELSE Append(chunks, segment),
                       max_len, min_len)

\* A splitter that returns its pieces as the clause loop left them.
NoResplit(chunks, i, max_len) == chunks

\* Lines 410-412: the loop that splits again, by words, every piece longer
\* than max_len; it goes on through the list it changes (i counts from 1).
RECURSIVE Resplit(_, _, _)
Resplit(chunks, i, max_len) ==
    IF i > Len(chunks) THEN chunks
    ELSE IF Len(chunks[i]) > max_len
    THEN Resplit(SubSeq(chunks, 1, i - 1) \o split_by_words(chunks[i], max_len)
                     \o SubSeq(chunks, i + 1, Len(chunks)),
                 i + 1, max_len)
    ELSE Resplit(chunks, i + 1, max_len)

NonEmpty(chunk) == chunk # <<>>

split_long_sentence(sentence, max_len, min_len) ==
    IF Len(sentence) <= max_len THEN <<sentence>>
    ELSE LET chunk == sentence
             chunks ==
                 IF \E pos \in 0..Len(chunk) : SplitPoint(chunk, pos)
                 THEN LET r == ClauseLoop(chunk, 0, 0, <<>>, max_len, min_len)
                      IN IF r.last_pos < Len(chunk)
                         THEN r.chunks \o split_by_words(
                                  Slice(chunk, r.last_pos, Len(chunk)), max_len)
                         ELSE r.chunks
                 ELSE split_by_words(chunk, max_len)
         IN SelectSeq(Resplit(chunks, 1, max_len), NonEmpty)

\* Lines 441-449: the loop over the sentences.
RECURSIVE split_text_to_sentences(_)
split_text_to_sentences(sents) ==
    IF sents = <<>> THEN <<>>
    ELSE (IF Len(Head(sents)) > MAX_LEN
          THEN split_long_sentence(Head(sents), MAX_LEN, MIN_LEN)
          ELSE <<Head(sents)>>)
         \o split_text_to_sentences(Tail(sents))

\* The sentences of n characters sent_tokenize (nltk) gives: not empty, with
\* no white space at either end.
Sentence(n) ==
    {s \in [1..n -> Alphabet] : s[1] \notin Whitespace /\ s[n] \notin Whitespace}

\* Line 439: sent_tokenize returns the sentences of the text received: one
\* sentence, or two out of a few.
Tokenize ==
    /\ Running /\ sentences = <<>>
    /\ \/ \E n \in 1..MaxText : \E s \in Sentence(n) : sentences' = <<s>>
       \/ \E s, u \in {<<Letter>>, [i \in 1..(MAX_LEN + 1) |-> Letter]} :
              sentences' = <<s, u>>
    /\ UNCHANGED <<playerVars, sinkVars, genVars, playVars, speak_pc, mode, ctrlc,
                   running_threads, cfgVars, ctlObs, sinkObs, guiVars, new_sentences, content, entries,
                   bind_failed, ctlVars, obsVars>>

\* Lines 441-449: split_text_to_sentences returns.
SplitText ==
    /\ Running /\ sentences # <<>> /\ new_sentences = <<>>
    /\ new_sentences' = split_text_to_sentences(sentences)
    /\ UNCHANGED <<playerVars, sinkVars, genVars, playVars, speak_pc, mode, ctrlc,
                   running_threads, cfgVars, ctlObs, sinkObs, guiVars, sentences, content, entries,
                   bind_failed, ctlVars, obsVars>>

\* A text is received and split into the utterances of a session.
NextSplit == Tokenize \/ SplitText

SpecSplit == InitDaemon /\ [][NextSplit]_vars

\* ------------------------------------------------ parse_srt_file (SRT files)
\* The file is the sequence of its lines.  A line is << "blank" >> (empty or
\* white space only), << "num", digits >> (a text int() accepts),
\* << "ts", start, end >> (a text the pattern of line 51 matches, start and
\* end being << HH, MM, SS, mmm >>, each a sequence of digits) or
\* << "txt", i >> (any other text).  Times are counted in milliseconds.
MaxLines == 8         \* lines of an SRT file

LineKind == {"blank", "num", "ts", "txt"}

\* The decimal digits of i < 100, and i written with three digits.
Digits2(i) == <<i \div 10, i % 10>>
Digits3(i) == <<i \div 100, (i \div 10) % 10, i % 10>>

\* The line of a given kind at place i of a file: its index, its times and
\* its text are told from those of the other lines by i.
LineAt(kind, i) ==
    CASE kind = "blank" -> <<"blank">>
      [] kind = "num" -> <<"num", Digits2(i)>>
      [] kind = "ts" -> <<"ts",
                          <<Digits2(i), Digits2(59 - i), Digits2(i), Digits3(500 + i)>>,
                          <<Digits2(i), Digits2(59 - i), Digits2(i + 1), Digits3(0)>> >>
      [] OTHER -> <<"txt", i>>

IsBlank(line) == line[1] = "blank"

\* int(text) and the integer part of float(text), for a text of digits.
RECURSIVE int(_)
int(digits) ==
    IF digits = <<>> THEN 0
    ELSE 10 * int(SubSeq(digits, 1, Len(digits) - 1)) + digits[Len(digits)]

\* A conversion that counts a minute as a hundred seconds.
CentesimalTimestamp(timestamp) ==
    LET hours == int(timestamp[1])
        minutes == int(timestamp[2])
        seconds_ms == int(timestamp[3]) * 1000 + int(timestamp[4])
    IN hours * 3600 * 1000 + minutes * 100 * 1000 + seconds_ms

\* Lines 18-27: the timestamp is split at ":", its seconds at the comma.
parse_srt_timestamp(timestamp) ==
    LET hours == int(timestamp[1])
        minutes == int(timestamp[2])
        seconds_ms == int(timestamp[3]) * 1000 + int(timestamp[4])
    IN hours * 3600 * 1000 + minutes * 60 * 1000 + seconds_ms

\* f.read().strip() (line 35): blank lines at both ends are dropped.
RECURSIVE StripLines(_)
StripLines(lines) ==
    IF lines = <<>> THEN <<>>
    ELSE IF IsBlank(Head(lines)) THEN StripLines(Tail(lines))
    ELSE IF IsBlank(lines[Len(lines)])
    THEN StripLines(SubSeq(lines, 1, Len(lines) - 1))
    ELSE lines

\* re.split(r'\n\s*\n', content) (line 38): a run of blank lines ends a
\* block; block is the block being gathered.
RECURSIVE SplitBlocks(_, _)
SplitBlocks(lines, block) ==
    IF lines = <<>> THEN <<block>>
    ELSE IF IsBlank(Head(lines))
    THEN (IF block = <<>> THEN <<>> ELSE <<block>>)
         \o SplitBlocks(Tail(lines), <<>>)
    ELSE SplitBlocks(Tail(lines), Append(block, Head(lines)))

\* Lines 41-65, the body of the loop: what one block adds to the entries.
\* The empty block of an empty file has the single line "".
ParseBlock(block) ==
    LET lines == IF block = <<>> THEN << <<"blank">> >> ELSE block
    IN IF Len(lines) < 3 THEN <<>>
       ELSE IF lines[1][1] # "num" THEN <<>>
       ELSE IF lines[2][1] # "ts" THEN <<>>
       ELSE << [index |-> int(lines[1][2]),
                start_time |-> parse_srt_timestamp(lines[2][2]),
                end_time |-> parse_srt_timestamp(lines[2][3]),
                text |-> SubSeq(lines, 3, Len(lines))] >>

\* Lines 40-67: the loop over the blocks.
RECURSIVE ParseBlocks(_)
ParseBlocks(blocks) ==
    IF blocks = <<>> THEN <<>>
    ELSE ParseBlock(Head(blocks)) \o ParseBlocks(Tail(blocks))

parse_srt_file(lines) == ParseBlocks(SplitBlocks(StripLines(lines), <<>>))

\* Line 34: the file is read.
ReadSrt ==
    /\ Running /\ mode = "cli" /\ m_cmd = "none"
    /\ \E n \in 1..MaxLines : \E kinds \in [1..n -> LineKind] :
           content' = [i \in 1..n |-> LineAt(kinds[i], i)]
    /\ m_cmd' = "read"
    /\ UNCHANGED <<playerVars, sinkVars, genVars, playVars, speak_pc, mode, ctrlc,
                   running_threads, cfgVars, ctlObs, sinkObs, guiVars, sentences, new_sentences,
                   entries, bind_failed, m_pc, data, m_tmp, current_thread,
                   back_calls, obsVars>>

\* models.py 177: srt_entries = parse_srt_file(srt_file)
ParseSrt ==
    /\ Running /\ mode = "cli" /\ m_cmd = "read"
    /\ entries' = parse_srt_file(content)
    /\ m_cmd' = "srt"
    /\ UNCHANGED <<playerVars, sinkVars, genVars, playVars, speak_pc, mode, ctrlc,
                   running_threads, cfgVars, ctlObs, sinkObs, guiVars, sentences, new_sentences,
                   content, bind_failed, m_pc, data, m_tmp, current_thread,
                   back_calls, obsVars>>

InitCli == InitPlayer /\ mode = "cli" /\ ctrlc = FALSE

\* An SRT file is read and parsed.
NextSrt == ReadSrt \/ ParseSrt

SpecSrt == InitCli /\ [][NextSrt]_vars

\* ------------------------------------------ AudioPlayer on clips of any size
\* A clip is the sequence of its frames; frame i of a clip has the sample
\* value i, and 0 is silence.
MaxFrames == 3        \* frames of a clip
MaxBlock == 2         \* frames the device asks for in one callback
MaxOut == 8           \* frames written after one play()

Clip(n) == [i \in 1..n |-> i]
Zeros(n) == [i \in 1..n |-> 0]

\* The buffers of the callbacks one after the other.
RECURSIVE Written(_)
Written(buffers) ==
    IF buffers = <<>> THEN <<>> ELSE Head(buffers) \o Written(Tail(buffers))

\* A callback that advances the position by the size of the block.
OverrunCallback(frames) ==
    IF ~playing \/ current_audio = None
    THEN /\ outdata' = Append(outdata, Zeros(frames))
         /\ UNCHANGED <<current_audio, current_frame>>
    ELSE LET chunksize == Min(Len(current_audio) - current_frame, frames)
         IN /\ outdata' = Append(outdata,
                  SubSeq(current_audio, current_frame + 1, current_frame + chunksize)
                  \o Zeros(frames - chunksize))
            /\ current_audio' = IF chunksize < frames THEN None ELSE current_audio
            /\ current_frame' = current_frame + frames

\* Lines 414-440: the device asks for a block of frames.
_callback(frames) ==
    IF ~playing \/ current_audio = None
    THEN /\ outdata' = Append(outdata, Zeros(frames))
         /\ UNCHANGED <<current_audio, current_frame>>
    ELSE LET chunksize == Min(Len(current_audio) - current_frame, frames)
         IN /\ outdata' = Append(outdata,
                  SubSeq(current_audio, current_frame + 1, current_frame + chunksize)
                  \o Zeros(frames - chunksize))
            /\ current_audio' = IF chunksize < frames THEN None ELSE current_audio
            /\ current_frame' = current_frame + chunksize

\* The device thread runs the callback.
DeviceCallback ==
    /\ Running /\ audio_player
    /\ \E frames \in 1..MaxBlock :
           /\ Len(Written(outdata)) + frames <= MaxOut
           /\ _callback(frames)
    /\ UNCHANGED <<playing, playerVars, genVars, playVars, speak_pc, mode, ctrlc,
                   running_threads, cfgVars, ctlObs, sentences, new_sentences,
                   content, entries, bind_failed, guiVars, ctlVars, obsVars>>

\* Lines 275-276 and 299 of play_audio: the consumer hands a clip to the
\* player, made on first use, once is_playing (lines 475-479) is false.
DevicePlay ==
    /\ Running /\ current_audio = None
    /\ audio_player' = TRUE
    /\ \E n \in 1..MaxFrames :
           /\ audio' = [audio EXCEPT ![1] = Clip(n)]
           /\ SinkPlay(Clip(n))
    /\ outdata' = <<>>
    /\ UNCHANGED <<audio_queue, unfinished_tasks, stop_event, skip, back, back_number,
                   print_complete, genVars, play_pc, audio_chunks, c_back_number,
                   c_tmp, speak_pc, mode, ctrlc, running_threads, cfgVars, ctlObs,
                   sentences, new_sentences, content, entries, bind_failed,
                   guiVars, ctlVars, obsVars>>

\* Clips are played one after the other, with no pause, skip, back or stop.
NextSink == DevicePlay \/ DeviceCallback

SpecSink == InitDaemon /\ [][NextSink]_vars

\* ------------------------------------------------------------------- Gui
\* gui.py 136-156, play_speech with no paused speech and no thread yet: the
\* thread of speak_thread is started, and it calls
\* speak(text, console_mode=False, gui_highlight=self) (line 169).
GuiPlay ==
    /\ mode = "gui" /\ m_pc = "idle"
    /\ current_thread = 0
    /\ m_cmd' = "text" /\ data' = Raw("text")
    /\ StartThread(TextLen("text"))
    /\ UNCHANGED <<playerVars, sinkVars, gen_sent, audio_chunks, c_back_number,
                   audio, c_tmp, envVars, m_pc, m_tmp, back_calls>>

\* gui.py 269-272, back_sentence: player.back_sentence() reads back_number
\* (models.py 333, first half).
GuiBack ==
    /\ mode = "gui" /\ m_pc = "idle"
    /\ back_calls < MaxBack
    /\ back_calls' = back_calls + 1
    /\ m_tmp' = back_number
    /\ Issued(Found("back"))
    /\ MainGoto("back_store")
    /\ UNCHANGED <<playerVars, sinkVars, genVars, playVars, speak_pc,
                   envVars, m_cmd, data, current_thread, obsRest>>

\* gui.py 264-267, skip_sentence: player.skip_sentence()
GuiSkip ==
    /\ mode = "gui" /\ m_pc = "idle"
    /\ skip' = TRUE
    /\ Issued(Found("skip"))
    /\ UNCHANGED <<audio_queue, unfinished_tasks, stop_event, back, back_number,
                   print_complete, audio_player, sinkVars, genVars, playVars,
                   speak_pc, mainVars, obsRest>>

\* The window passes itself as the observer; run_daemon passes none.
InitGui ==
    /\ InitFields /\ DefaultSettings
    /\ m_pc = "idle" /\ ctrlc = FALSE
    /\ \/ mode = "gui" /\ gui_highlight = TRUE
       \/ mode = "daemon" /\ gui_highlight = FALSE

\* One text played from the window or sent to the daemon, with the back and
\* next commands of either.
NextGui ==
    \/ Threads \/ Callback
    \/ DaemonFirstContent \/ DaemonBack \/ DaemonNext
    \/ GuiPlay \/ GuiBack \/ GuiSkip
    \/ BackStore \/ BackSet

SpecGui == InitGui /\ [][NextGui]_vars

\* =================================================================== claims
\* C1: every run of generate_audio - ended by the end of the text, by
\* stop_event or by an exception - puts exactly one sentinel on audio_queue
\* and puts no chunk after it.
C1_OneSentinel ==
    \A s \in Sessions :
        /\ sentinels[s] <= 1
        /\ ~late_put[s]
        /\ sentinels[s] = 1 <=> gen_pc[s] = "done"

\* A producer that had put a chunk has ended on the stop_event branch.
C1_Witness ==
    \E s \in Sessions :
        gen_exit[s] = "stop" /\ gen_put[s] > 0 /\ sentinels[s] = 1

\* C2: when stop_playback has been called on a running session, both of its
\* threads end and speak() returns; the consumer is never left blocked in
\* audio_queue.get().  Stated on finite runs: once stop_playback has returned
\* and the handler waits in join(), the consumer of the session is not in
\* get() on an empty queue with its producer already returned - a state in
\* which nothing will ever be put and no thread can take a step.
C2_StopEndsSession ==
    \A s \in Sessions :
        ~(/\ m_pc = "join" /\ s = current_thread
          /\ play_pc[s] = "get" /\ audio_queue = <<>>
          /\ gen_pc[s] = "done"
          /\ ~ENABLED NextDaemon)

\* C4: in daemon mode (run.py 274-310; Gui.play_speech, gui.py 147-153, has
\* the same three statements) at most one speak thread is alive at any time:
\* a live session thread is stopped and joined before the next is started.
C4_OneSpeakThread ==
    /\ Cardinality({s \in Sessions : SpeakAlive(s)}) <= 1
    /\ \A s \in Sessions : SpeakAlive(s) => s = current_thread

\* The thread of a second session (a !status) has just been started after
\* stop_playback was applied to the first and the first was joined.
C4_Witness ==
    /\ current_thread = 2 /\ speak_pc[2] = "clear"
    /\ m_cmd = "status" /\ stop_event
    /\ ~SpeakAlive(1)

\* C5: a !stop received while the session thread is alive - even before the
\* thread has executed its first statement - cancels the session: when the
\* handling of !stop finishes, the thread is joined and the session has not
\* gone on to play its text to the end.  The session stop_playback was
\* applied to is over; it did not, after the stop, hand every chunk of the
\* text to the sink, dequeue the final sentinel with stop_event clear and
\* announce completion.
C5_StopCancels ==
    \A s \in Sessions :
        (/\ m_cmd = "stop" /\ m_pc = "idle"
         /\ s = current_thread /\ ~plain[s])
        => /\ Over(s)
           /\ ~(/\ gen_exit[s] = "finish"
                 /\ sunk[s] = [k \in 1..MaxChunks |-> Chunk(s, k)]
                 /\ ~exit_stop[s] /\ complete[s] = 1)

\* C7: the consumer of a session ended by stop_playback never emits the
\* playback-complete notification, wherever the stop finds it: a consumer
\* that left its loop with stop_event set (at the loop test, or on a sentinel
\* dequeued after the stop) has printed no "Playback complete.".
C7_NoCompleteAfterStop ==
    \A s \in Sessions : exit_stop[s] => complete[s] = 0

\* C8: a fetch with a pending back count b > 0 and a non-empty history clamps
\* b to at most len(history), takes the stored history element at index
\* len(history) - b (index len - b + 1 counting from 1), a valid index, and
\* hands it to the sink; the fetch and the hand-over dequeue nothing, append
\* nothing to the history and synthesize nothing.
C8_ReplayFromHistory ==
    [][\A s \in Sessions :
         /\ (play_pc[s] = "fetch" /\ play_pc'[s] = "play")
            => /\ c_back_number'[s] \in 1..audio_size(s)
               /\ c_back_number'[s] <= c_tmp[s]
               /\ audio'[s] = audio_chunks[s][audio_size(s) - c_back_number'[s] + 1]
               /\ UNCHANGED <<audio_queue, unfinished_tasks, audio_chunks, gen_put>>
         /\ (play_pc[s] = "play" /\ play_pc'[s] = "poll" /\ c_back_number[s] > 0)
            => /\ c_back_number[s] <= audio_size(s)
               /\ current_audio' = audio_chunks[s][audio_size(s) - c_back_number[s] + 1]
               /\ UNCHANGED <<audio_queue, unfinished_tasks, audio_chunks, gen_put>>
      ]_vars

\* Two back requests with a history of two chunks: the consumer replays the
\* older chunk, and the queue still holds what the producer put.
C8_Witness ==
    \E s \in Sessions :
        /\ play_pc[s] = "poll" /\ c_back_number[s] = 2 /\ audio_size(s) = 2
        /\ current_audio = audio_chunks[s][1]
        /\ audio_queue # <<>>

\* C9: a single back request issued while chunk k (there is a chunk k-1) is
\* playing for the first time makes the consumer play chunk k-1, the
\* previous sentence, next: the first chunk handed to the sink after the
\* request is chunk k-1.
C9_BackPlaysPrevious ==
    \A s \in Sessions :
        (/\ s = current_thread /\ Len(req) = 5
         /\ req[1] = "back" /\ req[3] /\ req[4] /\ ~req[5] /\ req[2] >= 2
         /\ sunk[s] # <<>>)
        => sunk[s][1] = Chunk(s, req[2] - 1)

\* What the sink was handed since the last request is the positions that
\* follow the chunk the request found playing, in order.
Forward(s) == \A i \in 1..Len(sunk[s]) : sunk[s][i] = Chunk(s, req[2] + i)

\* C10 as stated: a skip request issued while a chunk is playing makes the
\* consumer go on with the next position forward (the next history entry in
\* a back replay, otherwise the next chunk of the queue); no earlier chunk
\* is played and the order of the later chunks is kept.
C10_SkipAlwaysForward ==
    \A s \in Sessions :
        (s = current_thread /\ Len(req) = 5 /\ req[1] = "skip") => Forward(s)

\* C10, amended: a skip request issued while a chunk is playing and no back
\* request is pending makes the consumer abort the chunk at its next poll,
\* clear the skip flag and go on with the next position forward - the next
\* history entry in a back replay, otherwise the next chunk of the queue;
\* what is played after the skip is the following positions in order, never
\* an earlier chunk.
C10_SkipGoesForward ==
    /\ [](\A s \in Sessions :
            (s = current_thread /\ Len(req) = 5 /\ req[1] = "skip" /\ ~req[5])
            => Forward(s))
    /\ [][\A s \in Sessions :
            /\ (/\ play_pc[s] = "poll" /\ play_pc'[s] # "poll"
                /\ skip /\ ~stop_event /\ current_audio # None)
               => /\ play_pc'[s] = "after"
                  /\ current_audio' = None /\ ~playing'
            /\ (play_pc[s] = "head" /\ play_pc'[s] = "clamp") => ~skip'
         ]_vars

\* A skip issued during the replay of chunk 1 (after two back requests) has
\* been followed by chunk 2, taken from the history.
C10_Witness ==
    \E s \in Sessions :
        /\ Len(req) = 5 /\ req[1] = "skip" /\ req[2] = 1 /\ ~req[3] /\ ~req[5]
        /\ sunk[s] = <<Chunk(s, 2)>>
        /\ c_back_number[s] = 1

\* C11: while a pause is in effect (pause() was called, resume() has not
\* been since) and no stop is issued, the sink copies no sample - the
\* position current_frame does not advance - and the consumer dequeues no
\* chunk from audio_queue, so that resume() finds the same position of the
\* same chunk.
C11_PausedSinkHolds ==
    [][(paused /\ paused' /\ ~stop_event /\ ~stop_event')
       => /\ ~(current_frame' > current_frame)
          /\ \A s \in Sessions : Len(audio_chunks'[s]) <= Len(audio_chunks[s])
      ]_vars

\* C12: every sentence of a session is synthesized with the pipeline, voice
\* and speed that were in effect when speak() was called; a settings command
\* executed while the producer runs affects no sentence of that session.
C12_SettingsSnapshotted == \A s \in Sessions : torn[s] = 0

\* C13: after any sequence of !lang and !voice commands the current voice
\* begins with the current language code (change_voice accepts a voice of
\* the current language only).
C13_VoiceMatchesLanguage == StartsWith(voice, language)

\* C14: change_speed(v) sets the speed and returns True exactly when
\* MIN_SPEED <= v <= MAX_SPEED, otherwise it returns False and leaves the
\* speed alone; a !speed whose argument float() rejects changes nothing;
\* the speed of the player is within [MIN_SPEED, MAX_SPEED] at all times.
C14_SpeedStaysInRange ==
    /\ [](MIN_SPEED <= speed /\ speed <= MAX_SPEED)
    /\ [][\A arg \in SpeedArgs :
            data' = SettingMessage("speed", arg)
            => IF Parses(arg)
               THEN IF MIN_SPEED <= Float(arg) /\ Float(arg) <= MAX_SPEED
                    THEN speed' = Float(arg) /\ result' = "True"
                    ELSE speed' = speed /\ result' = "False"
               ELSE speed' = speed /\ result' = "ValueError"
         ]_vars

\* !speed 2.1 was refused after !speed 2.0 had been accepted.
C14_Witness ==
    /\ data = SettingMessage("speed", <<"num", 21>>)
    /\ result = "False" /\ speed = MAX_SPEED

\* C15: the accept loop of run_daemon is left by !exit only: whatever
\* message was handled, the daemon is back at accept() and not in the
\* handler of line 318, and the process has ended only after !exit.
C15_KeepsListening ==
    /\ m_pc \notin {"error", "join_timeout", "diag"}
    /\ m_pc = "exited" => m_cmd = "exit"

\* C16: a message that carries the TEXT: prefix is handled as text content,
\* whatever its payload begins with: the handler that runs is the one of
\* lines 296-310, which stops and joins a live session and starts one new
\* session speaking the payload.
C16_TextIsContent ==
    (data # <<>> /\ data[1] = "TEXT:") => m_cmd = "text"

\* C18: when the sink cannot be opened in the consumer thread the session
\* aborts: from then on the producer of the session begins the synthesis of
\* no further sentence and puts no further chunk.
C18_SinkFailureAborts ==
    [][\A s \in Sessions :
         (sink_failed[s] /\ sink_failed'[s])
         => gen_sent'[s] <= gen_sent[s] /\ gen_put'[s] <= gen_put[s]
      ]_vars

\* A producer or consumer thread of session s is alive.
SessionAlive(s) == GenAlive(s) \/ PlayAlive(s)

Overlap == \E s, r \in Sessions : s # r /\ SessionAlive(s) /\ SessionAlive(r)

Ended(s) == gen_pc[s] = "done" /\ play_pc[s] = "done"

\* The sink was handed exactly the chunks the producer put, in the order
\* they were put, each once; the notification was printed once, at the end.
InOrderAndComplete(s) ==
    /\ Len(sunk[s]) <= gen_put[s]
    /\ \A i \in 1..Len(sunk[s]) : sunk[s][i] = Chunk(s, i)
    /\ complete[s] = (IF play_pc[s] = "done" THEN 1 ELSE 0)
    /\ Ended(s) => Len(sunk[s]) = gen_put[s]

CanGoOn(s) ==
    ENABLED (generate_audio(s) \/ play_audio_forward(s) \/ speak(s) \/ Callback)

C19_BoundedWait ==
    /\ [](m_pc = "wait"
          => \/ ENABLED ConsoleWait
             \/ ENABLED ThreadsForward
             \/ ENABLED Callback)
    /\ [][(m_pc = "wait" /\ m_pc' # "wait")
          => /\ running_threads' =
                   IF ActiveCount > running_threads THEN running_threads + 1
                                                    ELSE running_threads
             /\ m_cmd = "quit" => m_pc' = "exited"
             /\ m_cmd = "text" => /\ m_pc' = "speak"
                                  /\ current_thread' = current_thread + 1
                                  /\ speak_pc'[current_thread'] = "clear"
         ]_vars

\* !quit found a session alive, stop_playback was applied, the wait timed
\* out with the consumer still alive, and run_console has left its loop.
C19_Witness ==
    /\ m_pc = "exited" /\ m_cmd = "quit" /\ running_threads = 2
    /\ \E s \in Sessions : PlayAlive(s)

\* C20: after a Ctrl+C taken in soft mode during speak(), the session is
\* parked and muted: as long as it is alive and no stop (and no resume) is
\* issued, the sink copies no sample of it - current_frame does not advance.
C20_ParkedSessionIsMuted ==
    [][(\E s \in Sessions :
           /\ soft_int[s] /\ plain[s] /\ PlayAlive(s)
           /\ soft_int'[s] /\ plain'[s])
       => ~(current_frame' > current_frame)
      ]_vars

C22_ExitSilences ==
    /\ [](m_pc = "exited"
          => \A s \in Sessions : ~SpeakAlive(s) /\ ~GenAlive(s) /\ ~PlayAlive(s))
    /\ [][(m_cmd = "exit" /\ m_pc \in {"join", "exited"})
          => \A s \in Sessions : Len(sunk'[s]) <= Len(sunk[s])
        ]_vars

\* C23: when speak() returns without having been interrupted, the consumer
\* and the producer thread of its session have ended; speak leaves the join
\* of the consumer only when the consumer has ended, and the join of the
\* producer comes next.
C23_ReturnAfterJoins ==
    [][\A s \in Sessions :
         /\ (speak_pc[s] = "join_play" /\ speak_pc'[s] # "join_play" /\ m_pc' # "stop_set"
             /\ ~soft_int'[s])
            => speak_pc'[s] = "join_gen" /\ ~PlayAlive(s)
         /\ (speak_pc[s] = "join_gen" /\ speak_pc'[s] # "join_gen" /\ m_pc' # "stop_set"
             /\ ~soft_int'[s])
            => /\ speak_pc'[s] = "done"
               /\ gen_pc'[s] \in {"idle", "done"}
               /\ play_pc'[s] \in {"idle", "done"}
      ]_vars

\* speak() has returned, uninterrupted, from a session whose producer put
\* every chunk and whose consumer announced completion.
C23_Witness ==
    \E s \in Sessions :
        /\ speak_pc[s] = "done" /\ plain[s] /\ ~soft_int[s]
        /\ gen_put[s] = MaxChunks /\ gen_exit[s] = "finish"
        /\ play_pc[s] = "done" /\ complete[s] = 1

\* C24: every unit split_text_to_sentences returns has at least one
\* character and at most MAX_LEN.
C24_UnitsWithinLimit ==
    \A i \in 1..Len(new_sentences) :
        Len(new_sentences[i]) >= 1 /\ Len(new_sentences[i]) <= MAX_LEN

\* A sentence with a clause boundary, longer than MAX_LEN, has been split
\* into at least two units, one of them of MAX_LEN characters.
C24_Witness ==
    /\ Len(sentences) = 1 /\ Len(sentences[1]) > MAX_LEN
    /\ \E pos \in 0..Len(sentences[1]) : SplitPoint(sentences[1], pos)
    /\ Len(new_sentences) >= 2
    /\ \E i \in 1..Len(new_sentences) : Len(new_sentences[i]) = MAX_LEN

\* C25: no unit split_text_to_sentences returns is made of white space
\* only.
C25_NoBlankUnit ==
    \A i \in 1..Len(new_sentences) : ~IsSpace(new_sentences[i])

\* The units put end to end.
RECURSIVE Concat(_)
Concat(units) == IF units = <<>> THEN <<>> ELSE Head(units) \o Concat(Tail(units))

NotSpace(c) == c # " "

\* The text with its space characters deleted.
NoSpaces(s) == SelectSeq(s, NotSpace)

\* The places of the characters of s that are not spaces, in order.
RECURSIVE Places(_, _)
Places(s, i) ==
    IF i > Len(s) THEN <<>>
    ELSE (IF s[i] # " " THEN <<i>> ELSE <<>>) \o Places(s, i + 1)

\* The length of the word of s - the characters between two white spaces -
\* that holds place i.
WordLen(s, i) ==
    LET first == CHOOSE a \in 1..i :
                     /\ \A k \in a..i : s[k] \notin Whitespace
                     /\ (a > 1 => s[a - 1] \in Whitespace)
        last == CHOOSE b \in i..Len(s) :
                    /\ \A k \in i..b : s[k] \notin Whitespace
                    /\ (b < Len(s) => s[b + 1] \in Whitespace)
    IN last - first + 1

\* The boundary after unit j of the units of s falls inside a word that is
\* not longer than MAX_LEN.
CutsShortWord(s, units, j) ==
    LET k == Len(NoSpaces(Concat(SubSeq(units, 1, j))))
        at == Places(s, 1)
    IN /\ k >= 1 /\ k < Len(at)
       /\ at[k + 1] = at[k] + 1
       /\ s[at[k]] \notin Whitespace /\ s[at[k + 1]] \notin Whitespace
       /\ WordLen(s, at[k]) <= MAX_LEN

\* The units of s hold the characters of s that are not spaces, each once
\* and in order.
KeepsContent(s, units) == NoSpaces(Concat(units)) = NoSpaces(s)

\* C26: the units of a sentence longer than MAX_LEN, put end to end with the
\* spaces deleted, are the sentence with its spaces deleted, and a unit
\* boundary falls inside a word only when the word is longer than MAX_LEN.
C26_LosslessWordSplit ==
    (Len(sentences) = 1 /\ Len(sentences[1]) > MAX_LEN /\ new_sentences # <<>>)
    => /\ KeepsContent(sentences[1], new_sentences)
       /\ \A j \in 1..(Len(new_sentences) - 1) :
              ~CutsShortWord(sentences[1], new_sentences, j)

\* A clause piece: a text that ends with "," or ";" and a white space.
ClausePiece(u) ==
    /\ Len(u) >= 2
    /\ u[Len(u) - 1] \in {",", ";"}
    /\ u[Len(u)] \in Whitespace

\* C27: no clause piece shorter than MIN_LEN is a unit of its own among the
\* units of a sentence longer than MAX_LEN, at the start of the sentence or
\* later.
C27_ShortPiecesMerged ==
    (Len(sentences) = 1 /\ Len(sentences[1]) > MAX_LEN)
    => \A i \in 1..Len(new_sentences) :
           ~(ClausePiece(new_sentences[i]) /\ Len(new_sentences[i]) < MIN_LEN)

\* C28: when binding the socket has failed, run_daemon never enters its
\* accept loop and receives no message, it runs one spoken diagnostic session
\* and no other, it can always go on until it has returned, and it returns
\* only after that session has been spoken to its end.
C28_BindFailureSpoken ==
    bind_failed
    => /\ m_pc \in {"error", "diag", "speak", "exited"}
       /\ data = <<>>
       /\ current_thread <= 1
       /\ m_pc # "exited" => ENABLED NextBind
       /\ m_pc = "exited"
          => /\ current_thread = 1 /\ Over(1)
             /\ complete[1] = 1

\* The bind failed, and run_daemon has returned after a diagnostic whose
\* chunks were all handed to the sink.
C28_Witness ==
    /\ bind_failed /\ m_pc = "exited"
    /\ Over(1) /\ Len(sunk[1]) = MaxChunks /\ gen_exit[1] = "finish"

\* The blocks of a file: the longest runs of lines that are not blank, each
\* given by the places of its first and last line.
FileBlocks(lines) ==
    {b \in (1..Len(lines)) \X (1..Len(lines)) :
        /\ b[1] <= b[2]
        /\ \A i \in b[1]..b[2] : ~IsBlank(lines[i])
        /\ b[1] > 1 => IsBlank(lines[b[1] - 1])
        /\ b[2] < Len(lines) => IsBlank(lines[b[2] + 1])}

\* A well-formed block: an integer line, a timestamp line, a text line.
WellFormed(lines, b) ==
    /\ b[2] - b[1] + 1 >= 3
    /\ lines[b[1]][1] = "num"
    /\ lines[b[1] + 1][1] = "ts"

\* Seconds and milliseconds of << HH, MM, SS, mmm >>, in milliseconds.
TimeOf(ts) ==
    (int(ts[1]) * 3600 + int(ts[2]) * 60 + int(ts[3])) * 1000 + int(ts[4])

\* C29: parse_srt_file returns one entry for every well-formed block of the
\* file and none for any other block, in the order of the file, with the
\* index of the block, its text lines and the start and end times
\* hours*3600 + minutes*60 + seconds.milliseconds.
C29_EntriesAreWellFormedBlocks ==
    m_cmd = "srt"
    => LET good == {b \in FileBlocks(content) : WellFormed(content, b)}
       IN /\ Len(entries) = Cardinality(good)
          /\ \A b \in good :
                 LET k == Cardinality({c \in good : c[1] <= b[1]})
                 IN /\ entries[k].index = int(content[b[1]][2])
                    /\ entries[k].start_time = TimeOf(content[b[1] + 1][2])
                    /\ entries[k].end_time = TimeOf(content[b[1] + 1][3])
                    /\ entries[k].text = SubSeq(content, b[1] + 2, b[2])

\* A file of two blocks, one well-formed and one not, has been parsed into
\* a single entry.
C29_Witness ==
    /\ m_cmd = "srt"
    /\ Cardinality(FileBlocks(content)) = 2
    /\ \E b \in FileBlocks(content) : ~WellFormed(content, b)
    /\ Len(entries) = 1
    /\ entries[1].start_time > 0

\* Every back request of the run has been made and taken up: back_sentence
\* has returned for the last time and the consumer has cleared the back flag.
BackServed == m_pc = "idle" /\ back_calls = MaxBack /\ ~back

\* The history of s is the chunks the producer put, in order, each once.
HistoryInOrder(s) ==
    \A k \in 1..audio_size(s) : audio_chunks[s][k] = Chunk(s, k)

\* Once the back requests are served and chunk k has been handed to the
\* sink, every chunk the consumer is about to hand over comes after k.
ForwardFrom(s, k) ==
    [](BackServed /\ play_pc[s] = "poll" /\ audio[s] = Chunk(s, k)
       => [](play_pc[s] = "play" => audio[s][2] > k))

\* C30: once the back requests are served the consumer hands the sink the
\* history entries in increasing index order, one index at a time, up to the
\* newest, and then the chunks it dequeues; the history changes only when a
\* chunk is dequeued, by appending that chunk, so that it always is the
\* chunks dequeued so far in their order, none skipped, none twice.
C30_ReplayThenResume ==
    /\ \A s \in Sessions : \A k \in 1..(MaxSentences * MaxChunks) : ForwardFrom(s, k)
    /\ [](\A s \in Sessions : HistoryInOrder(s))
    /\ [][\A s \in Sessions :
            /\ (play_pc[s] = "play" /\ play_pc'[s] = "poll" /\ sunk[s] # <<>>)
               => audio[s][2] <= sunk[s][Len(sunk[s])][2] + 1
            /\ (play_pc[s] = "fetch" /\ play_pc'[s] = "get" /\ audio_size(s) > 0)
               => /\ c_back_number'[s] = 0
                  /\ audio[s] = audio_chunks[s][audio_size(s)]
            /\ (play_pc[s] = "get" /\ play_pc'[s] = "play")
               => /\ audio_queue # <<>> /\ audio_queue' = Tail(audio_queue)
                  /\ audio_chunks'[s] = Append(audio_chunks[s], Head(audio_queue))
                  /\ audio'[s] = Head(audio_queue)
            /\ (audio_chunks'[s] # audio_chunks[s] /\ play_pc'[s] # "done")
               => play_pc[s] = "get" /\ play_pc'[s] = "play"
         ]_vars

\* The second back request found chunk 2 playing; the consumer has replayed
\* chunk 1 and then chunk 2 from the history and is back at the queue.
C30_Witness ==
    \E s \in Sessions :
        /\ BackServed /\ Len(req) = 5 /\ req[1] = "back" /\ req[2] = 2
        /\ sunk[s] = <<Chunk(s, 1), Chunk(s, 2)>>
        /\ audio_chunks[s] = <<Chunk(s, 1), Chunk(s, 2)>>
        /\ play_pc[s] = "get"

\* What session s handed to the sink and what it holds in its history are
\* chunks of its own text.
OwnChunks(s) ==
    /\ \A k \in 1..Len(sunk[s]) : sunk[s][k][1] = s
    /\ \A k \in 1..audio_size(s) : audio_chunks[s][k][1] = s

C32_FramesInOrder ==
    audio_player
    => LET clip == audio[1]
           N == Len(clip)
           out == Written(outdata)
       IN /\ current_frame \in 0..N
          /\ current_frame = Min(Len(out), N)
          /\ \A i \in 1..Len(out) : out[i] = IF i <= N THEN clip[i] ELSE 0
          /\ current_audio = None => current_frame = N
          /\ Len(out) > N => current_audio = None

\* A clip of three frames has been written in blocks of two: frames 0 and 1,
\* then frame 2 and one frame of silence, and is_playing is false.
C32_Witness ==
    /\ audio_player /\ audio[1] = Clip(3)
    /\ outdata = << <<1, 2>>, <<3, 0>> >>
    /\ current_frame = 3 /\ current_audio = None

\* C33: !lang with a code of the language map sets the language, rebuilds
\* the pipeline for it and returns True; the voice is kept when its id
\* begins with the code and is otherwise replaced by the first voice of the
\* list that begins with it; with any other code change_language returns
\* False and language, voice and pipeline stay as they are.  The speed is
\* never touched.
C33_LanguageChange ==
    [][\A arg \in LangArgs :
         data' = SettingMessage("lang", arg)
         => /\ speed' = speed
            /\ IF arg \in {"a", "b", "e", "f", "h", "i", "p", "j", "z"}
               THEN /\ result' = "True"
                    /\ language' = arg /\ pipeline' = arg
                    /\ IF voice[1] = arg
                       THEN voice' = voice
                       ELSE \E i \in 1..Len(Voices) :
                               /\ voice' = Voices[i] /\ Voices[i][1] = arg
                               /\ \A j \in 1..(i - 1) : Voices[j][1] # arg
               ELSE /\ result' = "False"
                    /\ UNCHANGED <<language, voice, pipeline>>
      ]_vars

\* !lang a was accepted and the voice af_heart, which is not the first
\* American voice of the list, was kept.
C33_Witness ==
    /\ data = SettingMessage("lang", "a") /\ result = "True"
    /\ language = "a" /\ voice = <<"a", "f_heart">>


\* C34: the index given to the observer with each chunk handed to the sink
\* is the index of that chunk in the history (counted from 0), the last one
\* for a chunk just taken from the queue and the replayed one for a replay;
\* with or without an observer the hand-over puts the same chunk on the sink
\* and changes nothing else of the player, and only the hand-over and the
\* end of play_audio write to the observer.
C34_ObserverIndex ==
    [][\A s \in Sessions :
         /\ (play_pc[s] = "play" /\ play_pc'[s] = "poll")
            => /\ sunk'[s] = Append(sunk[s], audio[s])
               /\ current_audio' = audio[s]
               /\ UNCHANGED <<playerVars, genVars, audio_chunks, c_back_number,
                              audio>>
               /\ gui_highlight
                  => /\ Len(highlighted') = 1
                     /\ highlighted'[1] \in 0..(audio_size(s) - 1)
                     /\ audio_chunks[s][highlighted'[1] + 1] = audio[s]
                     /\ highlighted'[1] =
                            IF c_back_number[s] = 0 THEN audio_size(s) - 1
                            ELSE audio_size(s) - c_back_number[s]
               /\ ~gui_highlight => highlighted' = highlighted
         /\ (highlighted' # highlighted)
            => /\ gui_highlight
               /\ \E t \in Sessions : play_pc[t] \in {"play", "end"}
                                        /\ play_pc'[t] # play_pc[t]]_vars

\* The window replays the first chunk after two back commands: the observer
\* is given index 0 while the history holds two chunks.
C34_Witness ==
    /\ mode = "gui" /\ gui_highlight
    /\ \E s \in Sessions :
           /\ audio_size(s) = 2
           /\ sunk[s] # <<>> /\ sunk[s][Len(sunk[s])] = Chunk(s, 1)
           /\ play_pc[s] = "poll"
           /\ highlighted = <<0>>
           /\ c_back_number[s] = 2

\* C35: from the return of pause_playback until resume_playback is called
\* the sink puts out silence only - it is never playing a clip - whatever
\* the consumer does meanwhile and however pause() and the consumer's
\* play() of the next chunk interleave.
C35_PausedStaysSilent == paused => ~(playing /\ current_audio # None)

\* C36: once stop_event has been set while a producer runs (a stop request
\* was issued in its session), that producer puts at most one more chunk on
\* audio_queue - the one whose stop check it had passed already - and then
\* the sentinel: it never again passes a stop check towards a put.
C36_OneMoreChunk ==
    [][\A s \in Sessions :
         (~plain[s] /\ gen_pc[s] = "next") => gen_pc'[s] # "put"]_vars

\* C37: no update of back_number is lost or counted twice: the store of
\* back_sentence leaves the counter one above what it was, the consumer's
\* decrement leaves it one below, and a clamp that has nothing to clamp
\* leaves it as it was, so that the counter is the number of back_sentence
\* calls less the number of decrements.
C37_BackCounterExact ==
    [][/\ (m_pc = "back_store" /\ m_pc' = "back_set")
          => back_number' = back_number + 1
       /\ \A s \in Sessions :
            /\ (play_pc[s] = "dec" /\ play_pc'[s] = "task_done")
               => back_number' = back_number - 1
            /\ (play_pc[s] = "fetch" /\ play_pc'[s] # "fetch"
                   /\ c_tmp[s] <= audio_size(s) /\ back_number <= audio_size(s))
               => back_number' = back_number
      ]_vars

\* C38: one skip_sentence call aborts at most one chunk.  The skip flag is
\* raised by skip_sentence only and is down after every passage of the loop
\* head, a chunk is cut short only with a skip, back or stop flag up, and
\* the flag of a call is down once a chunk has followed the one the call
\* found playing, or once two chunks have been handed to the sink after a
\* call that found none playing.
C38_SkipAbortsOne ==
    /\ [](\A s \in Sessions :
            (/\ s = current_thread /\ play_pc[s] = "poll"
             /\ req # <<>> /\ req[1] = "skip"
             /\ Len(sunk[s]) >= (IF Len(req) = 5 THEN 1 ELSE 2))
            => ~skip)
    /\ [][/\ (~skip /\ skip')
              => /\ m_pc = "idle" /\ req' # <<>> /\ req'[1] = "skip"
                 /\ UNCHANGED <<play_pc, sinkVars>>
           /\ \A s \in Sessions :
                /\ (play_pc[s] = "head" /\ play_pc'[s] = "clamp") => ~skip'
                /\ (play_pc[s] # "clamp" /\ play_pc'[s] = "clamp")
                   => play_pc[s] = "head"
                /\ (play_pc[s] # "play" /\ play_pc'[s] = "play")
                   => play_pc[s] \in {"fetch", "get"}
                /\ (play_pc[s] # "fetch" /\ play_pc'[s] = "fetch")
                   => play_pc[s] = "clamp"
                /\ (play_pc[s] = "poll" /\ play_pc'[s] # "poll"
                       /\ current_audio # None)
                   => skip \/ back \/ stop_event
         ]_vars

\* A skip_sentence call that came while the consumer held no playing chunk
\* has cut short the first chunk handed to the sink after it; the flag is
\* still up and the consumer is on its way to the loop head.
C38_Witness ==
    \E s \in Sessions :
        /\ s = current_thread /\ req = <<"skip">>
        /\ sunk[s] = <<Chunk(s, 1)>>
        /\ play_pc[s] = "after" /\ skip
        /\ current_audio = None /\ current_frame = 0

\* C39: in console mode, whenever run_console is at its prompt or in its
\* bounded wait, the test threading.active_count() > running_threads is true
\* exactly when a producer or consumer thread is alive - also after a
\* timeout has raised running_threads.
C39_DetectionExact ==
    (mode = "console" /\ m_pc \in {"idle", "wait"})
    => (SessionDetected <=> \E s \in Sessions : SessionAlive(s))

\* C40: for every chunk - here the sentences the tokenizer returned - and
\* every max_len from 1 on, each piece of split_by_words(chunk, max_len) has
\* at most max_len characters, wherever a word longer than max_len stands.
C40_PiecesWithinMaxLen ==
    \A i \in 1..Len(sentences) : \A max_len \in 1..MAX_LEN :
        LET pieces == split_by_words(sentences[i], max_len)
        IN \A j \in 1..Len(pieces) : Len(pieces[j]) <= max_len
====
